---- MODULE Spec2Model ----
(***************************************************************************)
(* Microsoft Graph API mail integration (mail_graph_api):                  *)
(*   - the OAuth2 token store of ir.mail_server and its refresh procedures *)
(*     (models/mail_server.py, models/ir_mail_server.py);                  *)
(*   - the send dispatcher of mail.mail (models/mail_mail.py).             *)
(*   - the authorization endpoints (controllers/main.py, auth.py).         *)
(* Odoo keeps records in a database transaction: writes go to the working  *)
(* copy (mail, server) and become durable (db_mail, db_server) on          *)
(* env.cr.commit() or when the request ends normally.                      *)
(***************************************************************************)
EXTENDS Integers, Sequences, FiniteSets, TLC

\* ---------------------------------------------------------------- bounds
NMails == 2
NServers == 2
MaxOps == 2
MaxTicks == 2
MaxAttachments == 3
MaxQueued == 41

\* ------------------------------------------------------ program constants
FiveMinutes == 300
DefaultExpiresIn == 3600
batch_size == 20
MiB == 1024 * 1024
max_attachment_size == 35 * MiB

Mails == 1..NMails
Servers == 1..NServers

\* A JSON key that the provider's response does not carry.
Absent == "<absent>"

VARIABLES
    server,            \* working copy of ir.mail_server records
    db_server,         \* committed copy of ir.mail_server records
    mail,              \* working copy of mail.mail records
    db_mail,           \* committed copy of mail.mail records
    now,               \* wall clock, in seconds
    ticks,             \* number of clock advances so far
    lastCall,          \* what the last token procedure did
    pc,                \* position of the mail worker: idle, queue, dispatch,
                       \* awaiting, returned, raised or crashed
    queue,             \* batches process_email_queue still has to send
    groups,            \* mail_by_server groups _send still has to process
    cur,               \* mail whose Graph request is in flight (0: none)
    auto_commit,       \* argument of the running send
    raise_exception,   \* argument of the running send
    batch,             \* mails of the running (or last) _send
    done,              \* mails of the batch whose processing is finished, in order
    entryAttempted,    \* mails of the batch with graph_api_attempted on entry
    batchQueued,       \* mails of the batch that were outgoing on entry
    graphRouted,       \* mails of the batch handed to the Graph branch
    reqThisPass,       \* mails with a Graph request issued in this pass
    smtpPass,          \* mails delegated to the standard path in this pass
    excMails,          \* mails whose processing raised in this pass
    graphReq,          \* Graph sendMail requests issued per mail so far
                       \* (2 stands for two or more)
    ops,               \* queue runs and operator sends started so far
    tokenReqs,         \* mails whose processing issued a token request in
                       \* this pass
    fallback_to_smtp,  \* field of ir.mail_server that no procedure writes
    lastHttp,          \* what the last authorization request did
    ms_client_id,      \* per server: the application (client) id is set
    ms_tenant_id,      \* per server: the directory (tenant) id is set
    ms_sender_email,   \* per server: the sender mailbox ("": not set)
    attachment_ids,    \* per mail: its attachments, in order
    payload,           \* per mail: the attachments and the skip list of the
                       \* last Graph request built for it
    thread,            \* per worker thread that refreshes the token of
                       \* server 1 on its own: position and local values
    reply,             \* what the last handling of a sendMail response did
    lastSend,          \* what the last call of send_email did
    freeze_detected,   \* fix_freezing_mail._send: the flag shared with its
                       \* watchdog thread
    sending,           \* fix_freezing_mail._send: position of the sending
                       \* thread, the mails left, the mails it set to sent
    watchdog,          \* position of the watchdog thread, the mails it
                       \* still has to look at
    qrun               \* one run of process_email_queue over a long queue:
                       \* the queued mails, the groups and batches left,
                       \* how often each mail was passed to send

tokenVars == <<server, db_server, now, ticks, lastCall>>
mailVars == <<mail, db_mail, pc, queue, groups, cur, auto_commit,
              raise_exception, batch, done, entryAttempted, batchQueued,
              graphRouted, reqThisPass, smtpPass, excMails, graphReq,
              ops, tokenReqs>>
httpVars == <<fallback_to_smtp, lastHttp, ms_client_id, ms_tenant_id,
              ms_sender_email>>
payloadVars == <<attachment_ids, payload>>
raceVars == <<thread>>
clientVars == <<reply, lastSend>>
watchVars == <<freeze_detected, sending, watchdog>>
runVars == <<qrun>>
vars == <<server, db_server, now, ticks, lastCall, mail, db_mail, pc, queue,
          groups, cur, auto_commit, raise_exception, batch, done,
          entryAttempted, batchQueued, graphRouted, reqThisPass, smtpPass,
          excMails, graphReq, ops, tokenReqs, fallback_to_smtp,
          lastHttp, ms_client_id, ms_tenant_id, ms_sender_email,
          attachment_ids, payload,
          thread, reply, lastSend, freeze_detected, sending, watchdog,
          qrun>>

\* ------------------------------------------------- identity provider
\* Responses of the token endpoint: a transport failure (Timeout or another
\* RequestException), an HTTP error, or HTTP 200 with a JSON body.
RespFailure(kind) ==
    [kind |-> kind, status_code |-> 0, access_token |-> Absent,
     refresh_token |-> Absent, expires_in |-> {}]

RespHttp(status, a, r, e) ==
    [kind |-> "http", status_code |-> status, access_token |-> a,
     refresh_token |-> r, expires_in |-> e]

TokenResponses ==
    {RespFailure("timeout"), RespHttp(400, Absent, Absent, {})}
    \cup {RespHttp(200, a, r, e) : a \in {Absent, "a1"},
                                   r \in {Absent, "", "r1"},
                                   e \in {{}, {FiveMinutes + 1}}}

\* The responses the dispatcher's runs draw from.
DispatchTokenResponses ==
    {RespHttp(400, Absent, Absent, {}), RespHttp(200, "a1", Absent, {})}

\* token_data.get(key): None (stored as an empty Char) when the key is absent.
Get(field) == IF field = Absent THEN "" ELSE field

\* token_data.get('expires_in', 3600)
ExpiresIn(resp) ==
    IF resp.expires_in = {} THEN DefaultExpiresIn
    ELSE CHOOSE e \in resp.expires_in : TRUE

\* requests' Response.raise_for_status()
RaisesForStatus(status) == status >= 400 /\ status < 600

NoResp == RespFailure("none")

Outcome(store, reqs, result, resp) ==
    [store |-> store, reqs |-> reqs, result |-> result, resp |-> resp]

\* ------------------------------------------------- mail_server.py
\* Slip: the refresh token is written from the response even when absent.
refresh_oauth_token_keep_always_written(srv, resp) ==
    Get(resp.refresh_token)

\* if token_data.get('refresh_token'): values['ms_refresh_token'] = ...
refresh_oauth_token_keep(srv, resp) ==
    IF Get(resp.refresh_token) # "" THEN resp.refresh_token
    ELSE srv.ms_refresh_token

_refresh_oauth_token(srv, t, resp) ==
    IF ~srv.credentials
    THEN Outcome(srv, <<>>, "raise", NoResp)
    ELSE LET grant == IF srv.ms_refresh_token # "" THEN "refresh_token"
                      ELSE "client_credentials"
         IN IF resp.kind # "http" \/ RaisesForStatus(resp.status_code)
            THEN Outcome(srv, <<grant>>, "raise", NoResp)
            ELSE Outcome([srv EXCEPT
                            !.ms_access_token = Get(resp.access_token),
                            !.ms_token_expiry = {t + ExpiresIn(resp)},
                            !.ms_refresh_token =
                                refresh_oauth_token_keep(srv, resp)],
                         <<grant>>, "ok", resp)

\* Slip: a token that expires exactly at the threshold counts as valid.
TokenExpired_strict(srv, t) ==
    \/ srv.ms_token_expiry = {}
    \/ \E e \in srv.ms_token_expiry : e < t + FiveMinutes

\* Slip: the comparison with the expiry threshold is inverted.
TokenExpired_inverted(srv, t) ==
    \/ srv.ms_token_expiry = {}
    \/ \E e \in srv.ms_token_expiry : e > t + FiveMinutes

\* not self.ms_token_expiry or self.ms_token_expiry <= expiry_threshold
TokenExpired(srv, t) ==
    \/ srv.ms_token_expiry = {}
    \/ \E e \in srv.ms_token_expiry : e <= t + FiveMinutes

Prepend(grant, out) ==
    Outcome(out.store, <<grant>> \o out.reqs, out.result, out.resp)

refresh_token_if_needed(srv, t, r1, r2) ==
    IF ~srv.use_graph_api THEN Outcome(srv, <<>>, "false", NoResp)
    ELSE IF ~TokenExpired(srv, t) THEN Outcome(srv, <<>>, "ok", NoResp)
    ELSE IF srv.ms_refresh_token = "" THEN _refresh_oauth_token(srv, t, r1)
    ELSE IF \/ r1.kind # "http"
            \/ r1.status_code # 200
            \/ r1.access_token = Absent
         THEN Prepend("refresh_token", _refresh_oauth_token(srv, t, r2))
         ELSE Outcome([srv EXCEPT
                         !.ms_access_token = Get(r1.access_token),
                         !.ms_token_expiry = {t + ExpiresIn(r1)},
                         !.ms_refresh_token =
                             IF r1.refresh_token # Absent
                             THEN Get(r1.refresh_token)
                             ELSE srv.ms_refresh_token],
                      <<"refresh_token">>, "ok", r1)

\* self.ms_access_token and expiry > datetime.now() + timedelta(minutes=5)
CachedTokenValid(srv, t) ==
    /\ srv.ms_access_token # ""
    /\ srv.ms_token_expiry # {}
    /\ \A e \in srv.ms_token_expiry : e > t + FiveMinutes

_get_oauth_token(srv, t, r1) ==
    IF CachedTokenValid(srv, t) THEN Outcome(srv, <<>>, "ok", NoResp)
    ELSE _refresh_oauth_token(srv, t, r1)

\* ------------------------------------------------- ir_mail_server.py
ir_refresh_token_if_needed(srv, t, r1) ==
    IF ~srv.use_graph_api THEN Outcome(srv, <<>>, "false", NoResp)
    ELSE IF srv.ms_refresh_token = "" THEN Outcome(srv, <<>>, "raise", NoResp)
    ELSE IF ~TokenExpired(srv, t) THEN Outcome(srv, <<>>, "ok", NoResp)
    ELSE IF r1.kind # "http" \/ r1.status_code # 200
         THEN Outcome(srv, <<"refresh_token">>, "raise", NoResp)
         ELSE Outcome([srv EXCEPT
                         !.ms_access_token = Get(r1.access_token),
                         !.ms_refresh_token =
                             IF Get(r1.refresh_token) # ""
                             THEN r1.refresh_token
                             ELSE srv.ms_refresh_token,
                         !.ms_token_expiry = {t + ExpiresIn(r1)}],
                      <<"refresh_token">>, "ok", r1)

\* ------------------------------------------------- records
ServerRecord(u, c, a, r, e) ==
    [use_graph_api |-> u, credentials |-> c, ms_access_token |-> a,
     ms_refresh_token |-> r, ms_token_expiry |-> e]

\* A server as created: the boolean defaults to False, the tokens are empty.
NewServer == ServerRecord(FALSE, FALSE, "", "", {})

\* Token stores a server can hold before the runs start: never authorized,
\* or authorized at time 0 with the default lifetime.
InitialStores == {<<"", "", {}>>, <<"a0", "r0", {DefaultExpiresIn}>>}

MailRecord(st, att, srv, rcpt, why) ==
    [state |-> st, graph_api_attempted |-> att, mail_server_id |-> srv,
     has_recipients |-> rcpt, failure_reason |-> why]

\* A mail as created by the composer: outgoing, not attempted.
NewMail(srv, rcpt) == MailRecord("outgoing", FALSE, srv, rcpt, "")

NoCall ==
    [op |-> "none", srv |-> 0, at |-> 0, pre |-> NewServer, reqs |-> <<>>,
     result |-> "none", resp |-> NoResp, first |-> "none",
     body |-> "", error |-> <<>>]

\* What the first request of a call was answered with.
FirstAnswer(out, r1) ==
    IF out.reqs = <<>> THEN "none"
    ELSE IF r1.kind # "http" THEN r1.kind
    ELSE IF r1.status_code = 200 THEN "200" ELSE "non-200"

\* response.text of an answer of the token endpoint: the JSON body of a
\* grant, or the error description of a refusal; no text without an answer.
ResponseText(resp) ==
    IF resp.kind # "http" THEN ""
    ELSE IF resp.status_code = 200 THEN "token_data"
    ELSE "invalid_grant"

\* str(e) of the RequestException: the HTTPError of raise_for_status() names
\* the status, the reason phrase and the url; a transport failure names
\* itself.
RequestExceptionText(resp) ==
    IF resp.kind = "http"
    THEN <<"status_code", " Client Error: ", "reason", " for url: ",
           "token_url">>
    ELSE <<resp.kind>>

\* _("Failed to authenticate with Microsoft Graph API: %s") % str(e)
refresh_oauth_token_error(resp) ==
    <<"Failed to authenticate with Microsoft Graph API: ">>
        \o RequestExceptionText(resp)

\* ir_mail_server.py: the UserError of a non-200 answer is caught by the
\* procedure's own except Exception and wrapped once more.
ir_refresh_token_error(resp) ==
    IF resp.kind = "timeout"
    THEN <<"Timeout refreshing Microsoft Graph API token. Please try again.">>
    ELSE <<"Error refreshing Microsoft Graph API token: ",
           "Failed to refresh Microsoft Graph API token: ",
           ResponseText(resp)>>

\* The answer to the last request of a call, and the error a call that
\* raised after a request carries.
Failure(out, final, err) ==
    IF out.result = "raise" /\ out.reqs # <<>>
    THEN [body |-> ResponseText(final), error |-> err]
    ELSE [body |-> "", error |-> <<>>]

Call(op, s, out, r1, fail) ==
    [op |-> op, srv |-> s, at |-> now, pre |-> server[s], reqs |-> out.reqs,
     result |-> out.result, resp |-> out.resp, first |-> FirstAnswer(out, r1),
     body |-> fail.body, error |-> fail.error]

\* A query parameter that the request does not carry (integer-valued
\* parameters), and one whose text is not a number.
NoParam == 0
NotANumber == -1

\* The query parameters of an authorization request.
Kw(id, state, code, error, error_description) ==
    [id |-> id, state |-> state, code |-> code, error |-> error,
     error_description |-> error_description]

\* Two workers (a cron worker and an HTTP worker, say) that call
\* refresh_token_if_needed on the same server at the same time.
Threads == {1, 2}

\* A worker that has not called the procedure.
IdleThread ==
    [pc |-> "idle", at |-> 0, snap |-> NewServer,
     out |-> Outcome(NewServer, <<>>, "none", NoResp)]

\* An ir.attachment: its name and the length of its datas in bytes; NoData
\* stands for datas that is None or False.
NoData == -1
Attachment(name, datas) == [name |-> name, datas |-> datas]

\* len(base64.b64encode(data)) for data of n bytes
B64Len(n) == 4 * ((n + 2) \div 3)

\* Slip: the budget is not looked at.
ExceedsBudget_never(total_size, attachment_size) == FALSE

\* if total_size + attachment_size > max_attachment_size
ExceedsBudget(total_size, attachment_size) ==
    total_size + attachment_size > max_attachment_size

\* An entry of skipped_attachments: the name, followed by ' (error)' when
\* the attachment could not be encoded.
Skipped(name, error) == [name |-> name, error |-> error]

NoPayload == [attachments |-> <<>>, skipped |-> <<>>, total_size |-> 0]

\* One iteration of 'for attachment in mail.attachment_ids'.
AddAttachment(acc, att) ==
    LET attachment_size == IF att.datas = NoData THEN 0 ELSE att.datas
    IN IF ExceedsBudget(acc.total_size, attachment_size)
       THEN [acc EXCEPT !.skipped = Append(@, Skipped(att.name, FALSE))]
       ELSE IF att.datas = NoData
       THEN [acc EXCEPT !.skipped = Append(@, Skipped(att.name, TRUE))]
       ELSE [acc EXCEPT
               !.attachments =
                   Append(@, [name |-> att.name,
                              contentBytes |-> B64Len(att.datas)]),
               !.total_size = @ + attachment_size]

RECURSIVE AttachmentLoop(_, _)
AttachmentLoop(acc, atts) ==
    IF atts = <<>> THEN acc
    ELSE AttachmentLoop(AddAttachment(acc, Head(atts)), Tail(atts))

\* The attachments part of the payload and the skip list.
ProcessAttachments(atts) == AttachmentLoop(NoPayload, atts)

\* No authorization request has been handled yet.
NoHttp ==
    [handler |-> "none", admin |-> FALSE,
     kw |-> Kw(NoParam, NoParam, Absent, Absent, Absent),
     page |-> "none", message |-> <<>>, redirect_state |-> NoParam,
     reqs |-> <<>>]

\* The sender mailbox of every server is configured.
SenderConfigured ==
    ms_sender_email = [s \in Servers |-> "sender@example.com"]

\* A server whose credentials are complete has its client id and its
\* tenant id set.
IdsFollowCredentials ==
    /\ ms_client_id = [s \in Servers |-> server[s].credentials]
    /\ ms_tenant_id = [s \in Servers |-> server[s].credentials]

\* A sendMail response: its status, its text and its x-ms-request-id header.
SendResponse(status_code, text, request_id) ==
    [status_code |-> status_code, text |-> text, request_id |-> request_id]

\* Slip: only 202 Accepted counts as success.
SuccessStatus_only_202 == {202}

\* response.status_code not in [200, 202]
SuccessStatus == {200, 202}

\* f"{prefix}{text}": a text is the sequence of its parts.
Fmt(prefix, text) == <<prefix>> \o text

\* What the handling of a response leaves: the state and failure reason
\* written on the mail (dispatcher), or the value returned or the message
\* of the UserError raised (client).
Reply(handler, resp, message_id, result, id, why) ==
    [handler |-> handler, resp |-> resp, message_id |-> message_id,
     result |-> result, id |-> id, why |-> why]

NoReply ==
    Reply("none", SendResponse(0, <<>>, Absent), Absent, "none", Absent, <<>>)

\* mail_mail.py: the write that follows requests.post in _send.
send_response(resp) ==
    IF resp.status_code \notin SuccessStatus
    THEN Reply("_send", resp, Absent, "exception", Absent,
               Fmt("Failed to send email: ", resp.text))
    ELSE Reply("_send", resp, Absent, "sent", Absent, <<>>)

\* ir_mail_server.py: the end of _send_email_graph_api.  The UserError
\* raised for a bad status is caught by the procedure's own 'except
\* Exception' and raised again with a second prefix.
_send_email_graph_api(resp, message_id) ==
    IF resp.status_code \notin SuccessStatus
    THEN Reply("_send_email_graph_api", resp, message_id, "raise", Absent,
               Fmt("Error sending email via Microsoft Graph API: ",
                   Fmt("Graph API error: ", resp.text)))
    ELSE Reply("_send_email_graph_api", resp, message_id, "return",
               IF Get(resp.request_id) # "" THEN resp.request_id
               ELSE message_id,
               <<>>)

\* What a call of send_email did: the server record it leaves, the number
\* of Graph requests, the number of calls of super().send_email (the
\* standard SMTP method), and how it ended: "graph" or "smtp" (a message
\* id is returned) or "raise".
Sent(store, posts, smtp, result) ==
    [store |-> store, posts |-> posts, smtp |-> smtp, result |-> result]

NoSend ==
    [handler |-> "none", srv |-> 0, fallback |-> FALSE, posts |-> 0,
     smtp |-> 0, result |-> "none", token |-> "none"]

\* The n-th call of super().send_email returns or raises.
SuperSendEmail(store, posts, n, smtp_ok) ==
    Sent(store, posts, n, IF smtp_ok[n] THEN "smtp" ELSE "raise")

\* if mail_server.fallback_to_smtp
FallsBack(fb) == fb

\* mail_server.py, send_email: 'except Exception' after n calls of the
\* standard method inside the try.
send_email_except(store, fb, posts, n, smtp_ok) ==
    IF FallsBack(fb) THEN SuperSendEmail(store, posts, n + 1, smtp_ok)
    ELSE Sent(store, posts, n, "raise")

\* mail_server.py, send_email: the two fallbacks inside the try (no access
\* token, status not in [200, 202]); without the flag a UserError is
\* raised there.  Both are caught by the 'except Exception' of the try.
send_email_in_try(store, fb, posts, smtp_ok) ==
    IF FallsBack(fb) /\ smtp_ok[1]
    THEN SuperSendEmail(store, posts, 1, smtp_ok)
    ELSE send_email_except(store, fb, posts, IF FallsBack(fb) THEN 1 ELSE 0,
                           smtp_ok)

\* mail_server.py, send_email with mail_server_id given.
send_email(srv, fb, t, r1, r2, resp, smtp_ok) ==
    IF ~srv.use_graph_api THEN SuperSendEmail(srv, 0, 1, smtp_ok)
    ELSE LET out == refresh_token_if_needed(srv, t, r1, r2)
         IN IF out.result = "raise"
            THEN send_email_except(srv, fb, 0, 0, smtp_ok)
            ELSE IF out.store.ms_access_token = ""
            THEN send_email_in_try(out.store, fb, 0, smtp_ok)
            ELSE IF resp \in {"200", "202"}
            THEN Sent(out.store, 1, 0, "graph")
            ELSE IF resp \in {"timeout", "connection error"}
            THEN send_email_except(out.store, fb, 1, 0, smtp_ok)
            ELSE send_email_in_try(out.store, fb, 1, smtp_ok)

\* The Graph client of ir_mail_server.py and of fix_ir_mail_server.py up
\* to its return or its exception.
graph_client(srv, t, r1, r2, resp) ==
    LET out == refresh_token_if_needed(srv, t, r1, r2)
    IN IF out.result = "raise" THEN Sent(srv, 0, 0, "raise")
       ELSE IF resp \in {"200", "202"} THEN Sent(out.store, 1, 0, "graph")
       ELSE Sent(out.store, 1, 0, "raise")

\* ir_mail_server.py, send_email: the Graph client's result or exception
\* is the call's.
ir_send_email(srv, fb, t, r1, r2, resp, smtp_ok) ==
    IF ~srv.use_graph_api THEN SuperSendEmail(srv, 0, 1, smtp_ok)
    ELSE graph_client(srv, t, r1, r2, resp)

\* fix_ir_mail_server.py, send_email: an exception of the Graph client is
\* logged and the standard method is called.
fix_send_email(srv, fb, t, r1, r2, resp, smtp_ok) ==
    IF ~srv.use_graph_api THEN SuperSendEmail(srv, 0, 1, smtp_ok)
    ELSE LET g == graph_client(srv, t, r1, r2, resp)
         IN IF g.result = "graph" THEN g
            ELSE SuperSendEmail(g.store, g.posts, 1, smtp_ok)

IdleMailState ==
    /\ pc = "idle"
    /\ UNCHANGED mailVars

\* The answers to a second token request: one is drawn only when the call
\* issues a second request.
SecondResponses(srv, t, r1) ==
    IF Len(refresh_token_if_needed(srv, t, r1, NoResp).reqs) > 1
    THEN TokenResponses ELSE {NoResp}

\* ------------------------------------------------- token procedures
\* A token procedure called on its own (button, test connection, cron):
\* its write is committed when the request ends.
RefreshTokenIfNeeded(s) ==
    /\ IdleMailState
    /\ \E r1 \in TokenResponses :
         \E r2 \in SecondResponses(server[s], now, r1) :
           LET out == refresh_token_if_needed(server[s], now, r1, r2)
               final == IF Len(out.reqs) > 1 THEN r2 ELSE r1
           IN /\ server' = [server EXCEPT ![s] = out.store]
              /\ db_server' = server'
              /\ lastCall' =
                   Call("refresh_token_if_needed", s, out, r1,
                        Failure(out, final,
                                refresh_oauth_token_error(final)))
    /\ UNCHANGED <<now, ticks, httpVars, payloadVars, raceVars, clientVars, watchVars, runVars>>

GetOauthToken(s) ==
    /\ IdleMailState
    /\ \E r1 \in TokenResponses :
         LET out == _get_oauth_token(server[s], now, r1)
         IN /\ server' = [server EXCEPT ![s] = out.store]
            /\ db_server' = server'
            /\ lastCall' =
                 Call("_get_oauth_token", s, out, r1,
                      Failure(out, r1, refresh_oauth_token_error(r1)))
    /\ UNCHANGED <<now, ticks, httpVars, payloadVars, raceVars, clientVars, watchVars, runVars>>

IrRefreshTokenIfNeeded(s) ==
    /\ IdleMailState
    /\ \E r1 \in TokenResponses :
         LET out == ir_refresh_token_if_needed(server[s], now, r1)
         IN /\ server' = [server EXCEPT ![s] = out.store]
            /\ db_server' = server'
            /\ lastCall' =
                 Call("ir_refresh_token_if_needed", s, out, r1,
                      Failure(out, r1, ir_refresh_token_error(r1)))
    /\ UNCHANGED <<now, ticks, httpVars, payloadVars, raceVars, clientVars, watchVars, runVars>>

\* Time passes: a second, or a whole default token lifetime.
Tick ==
    /\ IdleMailState
    /\ ticks < MaxTicks
    /\ \E d \in {1, DefaultExpiresIn} : now' = now + d
    /\ ticks' = ticks + 1
    /\ UNCHANGED <<server, db_server, lastCall, httpVars, payloadVars, raceVars, clientVars, watchVars, runVars>>

\* No run of process_email_queue over a long queue is under way.
NoRun ==
    [pc |-> "idle", ml |-> <<>>, mail_to_send |-> <<>>, plan |-> <<>>,
     sends |-> <<>>, raised |-> {}]

MailInitCommon ==
    /\ db_mail = mail
    /\ pc = "idle"
    /\ queue = <<>>
    /\ groups = <<>>
    /\ cur = 0
    /\ auto_commit = FALSE
    /\ raise_exception = FALSE
    /\ batch = {}
    /\ done = <<>>
    /\ entryAttempted = {}
    /\ batchQueued = {}
    /\ graphRouted = {}
    /\ reqThisPass = {}
    /\ smtpPass = {}
    /\ excMails = {}
    /\ graphReq = [m \in Mails |-> 0]
    /\ ops = 0
    /\ tokenReqs = {}
    /\ lastHttp = NoHttp
    /\ payload = [m \in Mails |-> NoPayload]
    /\ thread = [t \in Threads |-> IdleThread]
    /\ reply = NoReply
    /\ lastSend = NoSend
    /\ freeze_detected = FALSE
    /\ sending = [pc |-> "idle", ids |-> {}, rest |-> <<>>, sent |-> {}]
    /\ watchdog = [pc |-> "none", rest |-> <<>>]
    /\ qrun = NoRun

InitToken ==
    /\ \E u \in BOOLEAN, c \in BOOLEAN, st \in InitialStores :
         server = [s \in Servers |->
                     IF s = 1 THEN ServerRecord(u, c, st[1], st[2], st[3])
                     ELSE NewServer]
    /\ db_server = server
    /\ fallback_to_smtp = [s \in Servers |-> TRUE]
    /\ IdsFollowCredentials
    /\ SenderConfigured
    /\ now = 0
    /\ ticks = 0
    /\ lastCall = NoCall
    /\ mail = [m \in Mails |-> NewMail(0, TRUE)]
    /\ attachment_ids = [m \in Mails |-> <<>>]
    /\ MailInitCommon

NextToken ==
    \/ \E s \in Servers : RefreshTokenIfNeeded(s)
    \/ \E s \in Servers : GetOauthToken(s)
    \/ \E s \in Servers : IrRefreshTokenIfNeeded(s)
    \/ Tick

SpecToken == InitToken /\ [][NextToken]_vars

\* ------------------------------------------------- token store properties
EnsureValidTokenCalled ==
    lastCall.op \in {"refresh_token_if_needed", "_get_oauth_token"}

ExpiryBeyondMargin(srv, t) ==
    /\ srv.ms_token_expiry # {}
    /\ \A e \in srv.ms_token_expiry : e > t + FiveMinutes

\* C7 (as stated): a call of refresh_token_if_needed or _get_oauth_token on a
\* config whose token_expiry is more than 5 minutes ahead issues no token
\* request and leaves the token store unchanged.
C7_NoRequestWhenExpiryAhead ==
    (EnsureValidTokenCalled /\ ExpiryBeyondMargin(lastCall.pre, lastCall.at))
    => (lastCall.reqs = <<>> /\ server[lastCall.srv] = lastCall.pre)

\* C7 (amended): when an access token is stored and token_expiry is more
\* than 5 minutes ahead, the call issues no token request and leaves the
\* token store unchanged.
C7_NoRequestWhenCachedTokenFresh ==
    (/\ EnsureValidTokenCalled
     /\ lastCall.pre.ms_access_token # ""
     /\ ExpiryBeyondMargin(lastCall.pre, lastCall.at))
    => (lastCall.reqs = <<>> /\ server[lastCall.srv] = lastCall.pre)

C7_Witness ==
    /\ EnsureValidTokenCalled
    /\ lastCall.pre.use_graph_api
    /\ lastCall.pre.ms_access_token # ""
    /\ ExpiryBeyondMargin(lastCall.pre, lastCall.at)
    /\ lastCall.at > 0
    /\ lastCall.result = "ok"
    /\ lastCall.reqs = <<>>

SuccessfulRefresh == lastCall.result = "ok" /\ lastCall.reqs # <<>>

\* C8: after a successful refresh whose response omits refresh_token the
\* stored refresh token is the one stored before; when the response carries
\* a refresh token the stored one is that token.
C8_RefreshTokenKeptOrReplaced ==
    SuccessfulRefresh =>
        LET r == lastCall.resp.refresh_token
            post == server[lastCall.srv].ms_refresh_token
        IN /\ (r = Absent => post = lastCall.pre.ms_refresh_token)
           /\ (r \notin {Absent, ""} => post = r)

C8_Witness ==
    /\ SuccessfulRefresh
    /\ lastCall.resp.refresh_token = Absent
    /\ lastCall.pre.ms_refresh_token # ""
    /\ server[lastCall.srv].ms_refresh_token = lastCall.pre.ms_refresh_token
    /\ server[lastCall.srv].ms_access_token # lastCall.pre.ms_access_token

\* C9 (as stated): when the refresh-token grant of refresh_token_if_needed is
\* answered with a non-200 status, exactly one more request follows and it
\* is a client-credentials grant.
C9_FallbackIsClientCredentials ==
    (/\ lastCall.op = "refresh_token_if_needed"
     /\ lastCall.pre.credentials
     /\ lastCall.reqs # <<>>
     /\ lastCall.reqs[1] = "refresh_token"
     /\ lastCall.first = "non-200")
    => lastCall.reqs = <<"refresh_token", "client_credentials">>

GrantCount(reqs, grant) ==
    Cardinality({i \in 1..Len(reqs) : reqs[i] = grant})

\* C10 (as stated): with a stored refresh token and an expired access token
\* one call performs exactly one refresh-token grant and, on success, stores
\* the response's access token with expiry = now + expires_in (3600 when
\* absent).
C10_OneRefreshGrantAndExpiry ==
    (/\ lastCall.op = "refresh_token_if_needed"
     /\ lastCall.pre.use_graph_api
     /\ lastCall.pre.credentials
     /\ lastCall.pre.ms_refresh_token # ""
     /\ TokenExpired(lastCall.pre, lastCall.at))
    => /\ GrantCount(lastCall.reqs, "refresh_token") = 1
       /\ lastCall.result = "ok" =>
            /\ server[lastCall.srv].ms_access_token
                 = Get(lastCall.resp.access_token)
            /\ server[lastCall.srv].ms_token_expiry
                 = {lastCall.at + ExpiresIn(lastCall.resp)}

\* ------------------------------------------------- mail_mail.py helpers
RECURSIVE SetToSeq(_)
\* The ids of a recordset, in id order.
SetToSeq(S) ==
    IF S = {} THEN <<>>
    ELSE LET x == CHOOSE y \in S : \A z \in S : y <= z
         IN <<x>> \o SetToSeq(S \ {x})

Range(seq) == {seq[i] : i \in 1..Len(seq)}

Group(sid, ids) == [server_id |-> sid, mail_ids |-> ids]

\* mail_by_server.setdefault(sid, []).extend(ids): dicts keep insertion order.
Extend(gs, sid, ids) ==
    IF \E i \in 1..Len(gs) : gs[i].server_id = sid
    THEN [i \in 1..Len(gs) |->
            IF gs[i].server_id = sid
            THEN Group(sid, gs[i].mail_ids \o ids) ELSE gs[i]]
    ELSE Append(gs, Group(sid, ids))

RECURSIVE MailByServer(_, _)
\* The grouping loop of _send: attempted mails and mails without a server
\* are left out of mail_by_server.
MailByServer(ids, ml) ==
    IF ids = <<>> THEN <<>>
    ELSE LET m == ids[Len(ids)]
             before == MailByServer(SubSeq(ids, 1, Len(ids) - 1), ml)
         IN IF ml[m].graph_api_attempted \/ ml[m].mail_server_id = 0
            THEN before
            ELSE Extend(before, ml[m].mail_server_id, <<m>>)

RECURSIVE MailWithoutServer(_, _)
\* ... and are collected in mail_without_server.
MailWithoutServer(ids, ml) ==
    IF ids = <<>> THEN <<>>
    ELSE LET m == ids[Len(ids)]
             before == MailWithoutServer(SubSeq(ids, 1, Len(ids) - 1), ml)
         IN IF ml[m].graph_api_attempted \/ ml[m].mail_server_id = 0
            THEN Append(before, m)
            ELSE before

\* Slip: the search returns the last Graph-enabled server.
GraphServer_last(srvs) ==
    IF \E s \in Servers : srvs[s].use_graph_api
    THEN CHOOSE s \in Servers :
            /\ srvs[s].use_graph_api
            /\ \A o \in Servers : srvs[o].use_graph_api => s >= o
    ELSE 0

\* search([('use_graph_api', '=', True)], order='sequence', limit=1);
\* servers are numbered in sequence order, 0 is the empty recordset.
GraphServer(srvs) ==
    IF \E s \in Servers : srvs[s].use_graph_api
    THEN CHOOSE s \in Servers :
            /\ srvs[s].use_graph_api
            /\ \A o \in Servers : srvs[o].use_graph_api => s <= o
    ELSE 0

\* send(): outgoing.sudo().write({'graph_api_attempted': False})
ResetOutgoing(ml, ids) ==
    [m \in Mails |->
        IF m \in Range(ids) /\ ml[m].state = "outgoing"
        THEN [ml[m] EXCEPT !.graph_api_attempted = FALSE]
        ELSE ml[m]]

\* browse(mail_without_server).write({'mail_server_id': graph_server.id})
AssignServer(ml, ids, sid) ==
    [m \in Mails |->
        IF m \in Range(ids) THEN [ml[m] EXCEPT !.mail_server_id = sid]
        ELSE ml[m]]

\* The groups _send walks through: mail_by_server, then the mails left in
\* mail_without_server as a last group with server 0.
SendGroups(ids, ml, srvs) ==
    LET by == MailByServer(ids, ml)
        wo == MailWithoutServer(ids, ml)
        gs == IF wo = <<>> THEN 0 ELSE GraphServer(srvs)
    IN IF wo = <<>> THEN by
       ELSE IF gs # 0 THEN Extend(by, gs, wo)
       ELSE Append(by, Group(0, wo))

\* The mail records after the grouping part of _send.
SendAssign(ids, ml, srvs) ==
    LET wo == MailWithoutServer(ids, ml)
    IN IF wo # <<>> /\ GraphServer(srvs) # 0
       THEN AssignServer(ml, wo, GraphServer(srvs))
       ELSE ml

UsesGraph(g, srvs) == g.server_id # 0 /\ srvs[g.server_id].use_graph_api

GraphRoutedOf(gs, srvs) ==
    UNION {Range(gs[i].mail_ids) : i \in {j \in 1..Len(gs) : UsesGraph(gs[j], srvs)}}

\* Slip: the attempted flag is not written before the attempt.
MarkAttempted_skipped(rec) == rec

\* mail.sudo().write({'graph_api_attempted': True})
MarkAttempted(rec) == [rec EXCEPT !.graph_api_attempted = TRUE]

\* Slip: the failure is recorded without leaving the outgoing state.
RecordFailure_state_kept(rec, why) == [rec EXCEPT !.failure_reason = why]

\* Slip: the failure is recorded without the error text.
RecordFailure_reason_dropped(rec, why) == [rec EXCEPT !.state = "exception"]

\* mail.sudo().write({'state': 'exception', 'failure_reason': ...})
RecordFailure(rec, why) ==
    [rec EXCEPT !.state = "exception", !.failure_reason = why]

\* Slip: a delivered mail is left in the queue.
RecordSent_left_queued(rec) == [rec EXCEPT !.state = "outgoing"]

\* mail.sudo().write({'state': 'sent'})
RecordSent(rec) == [rec EXCEPT !.state = "sent"]

\* Slip: the per-mail commit is left out.
CommitAfterMail_never(ac, new, old) == old

\* if auto_commit: self.env.cr.commit()
CommitAfterMail(ac, new, old) == IF ac THEN new ELSE old

\* Slip: the caught exception is always raised again.
Reraises_always(re) == TRUE

\* if raise_exception: raise
Reraises(re) == re

\* Responses of the sendMail endpoint.
SendResponses == {"202", "503", "timeout"}

\* Slip: the failure is recorded without its diagnostic text.
SendFailureReason_blank(resp) == ""

SendFailureReason(resp) ==
    IF resp = "timeout"
    THEN "Timeout while sending email via Microsoft Graph API"
    ELSE IF resp = "connection error"
    THEN "Request error sending email via Microsoft Graph API"
    ELSE "Failed to send email: response text"

\* process_email_queue: the outgoing mails grouped by mail_server_id (0 for
\* none) and cut in batches of batch_size.
RECURSIVE Slices(_)
Slices(ids) ==
    IF ids = <<>> THEN <<>>
    ELSE IF Len(ids) <= batch_size THEN <<ids>>
    ELSE <<SubSeq(ids, 1, batch_size)>>
         \o Slices(SubSeq(ids, batch_size + 1, Len(ids)))

RECURSIVE MailToSend(_, _)
MailToSend(ids, ml) ==
    IF ids = <<>> THEN <<>>
    ELSE Extend(MailToSend(SubSeq(ids, 1, Len(ids) - 1), ml),
                ml[ids[Len(ids)]].mail_server_id, <<ids[Len(ids)]>>)

RECURSIVE QueueBatches(_)
QueueBatches(gs) ==
    IF gs = <<>> THEN <<>>
    ELSE Slices(gs[1].mail_ids) \o QueueBatches(Tail(gs))

\* ------------------------------------------------- mail_mail.py actions
\* send() followed by the grouping part of _send (the base send hands the
\* records to _send).  Nothing is committed yet.
StartSend(ids, ac, re) ==
    LET reset == ResetOutgoing(mail, ids)
        gs == SendGroups(ids, reset, server)
    IN /\ mail' = SendAssign(ids, reset, server)
       /\ groups' = gs
       /\ auto_commit' = ac
       /\ raise_exception' = re
       /\ batch' = Range(ids)
       /\ done' = <<>>
       /\ entryAttempted' = {m \in Range(ids) : reset[m].graph_api_attempted}
       /\ batchQueued' = {m \in Range(ids) : mail[m].state = "outgoing"}
       /\ graphRouted' = GraphRoutedOf(gs, server)
       /\ reqThisPass' = {}
       /\ smtpPass' = {}
       /\ excMails' = {}
       /\ pc' = "dispatch"
       /\ cur' = 0
       /\ tokenReqs' = {}
       /\ UNCHANGED <<db_mail, graphReq, tokenVars, httpVars, payloadVars, raceVars, clientVars, watchVars, runVars>>

\* process_email_queue(ids=None): scan the outgoing mails and cut batches.
ProcessEmailQueue ==
    /\ pc = "idle"
    /\ ops < MaxOps
    /\ ops' = ops + 1
    /\ LET ids == SetToSeq({m \in Mails : mail[m].state = "outgoing"})
       IN IF ids = <<>>
          THEN UNCHANGED <<pc, queue>>
          ELSE /\ queue' = QueueBatches(MailToSend(ids, mail))
               /\ pc' = "queue"
    /\ UNCHANGED <<mail, db_mail, groups, cur, auto_commit, raise_exception,
                   batch, done, entryAttempted, batchQueued, graphRouted,
                   reqThisPass, smtpPass, excMails, graphReq, tokenReqs,
                   tokenVars, httpVars, payloadVars, raceVars, clientVars, watchVars, runVars>>

\* self.sudo().browse(batch_ids).send(auto_commit=True)
QueueSendBatch ==
    /\ pc = "queue"
    /\ queue # <<>>
    /\ StartSend(Head(queue), TRUE, FALSE)
    /\ queue' = Tail(queue)
    /\ UNCHANGED ops

\* An operator sends a recordset by hand.
ManualSend(b, ac, re) ==
    /\ pc = "idle"
    /\ ops < MaxOps
    /\ b # {}
    /\ StartSend(SetToSeq(b), ac, re)
    /\ ops' = ops + 1
    /\ UNCHANGED queue

\* Slip: the loop over a group ends after its first mail.
RestGroups_breaks == Tail(groups)

\* The groups left once the first mail of the first group is dealt with.
RestGroups ==
    LET g == groups[1]
    IN IF Len(g.mail_ids) = 1 THEN Tail(groups)
       ELSE <<Group(g.server_id, Tail(g.mail_ids))>> \o Tail(groups)

\* End of one iteration: commit if asked, then the next mail or the end of
\* the loops.
Finish(newMail, newServer, newGroups) ==
    /\ mail' = newMail
    /\ server' = newServer
    /\ groups' = newGroups
    /\ db_mail' = CommitAfterMail(auto_commit, newMail, db_mail)
    /\ db_server' = CommitAfterMail(auto_commit, newServer, db_server)
    /\ pc' = IF newGroups # <<>> THEN "dispatch" ELSE "returned"

GraphTurn ==
    /\ pc = "dispatch"
    /\ groups # <<>>
    /\ UsesGraph(groups[1], server)

Marked(m) == [mail EXCEPT ![m] = MarkAttempted(mail[m])]

\* The mails of the pass whose processing has issued a token request.
TokenRequested(m, out) ==
    IF out.reqs # <<>> THEN tokenReqs \cup {m} ELSE tokenReqs

\* Loop body of _send when refresh_token_if_needed raises: the outer
\* except records the failure, commits, and raises again if asked.  r1 and
\* r2 are the token endpoint's answers.
GraphTokenError(r1, r2) ==
    /\ GraphTurn
    /\ LET m == groups[1].mail_ids[1]
           sid == groups[1].server_id
           out == refresh_token_if_needed(server[sid], now, r1, r2)
           newMail == [Marked(m) EXCEPT ![m] =
                          RecordFailure(@, "token refresh error")]
       IN /\ out.result = "raise"
          /\ excMails' = excMails \cup {m}
          /\ done' = Append(done, m)
          /\ tokenReqs' = TokenRequested(m, out)
          /\ IF Reraises(raise_exception)
             THEN /\ mail' = newMail
                  /\ db_mail' = CommitAfterMail(auto_commit, newMail, db_mail)
                  /\ groups' = <<>>
                  /\ pc' = "raised"
                  /\ UNCHANGED <<server, db_server>>
             ELSE Finish(newMail, server, RestGroups)
    /\ UNCHANGED <<now, ticks, lastCall, queue, cur, auto_commit,
                   raise_exception, batch, entryAttempted, batchQueued,
                   graphRouted, reqThisPass, smtpPass, graphReq, ops,
                   httpVars, payloadVars, raceVars, clientVars, watchVars, runVars>>

\* Loop body of _send for a mail without recipients: fail fast, continue.
GraphNoRecipient(r1, r2) ==
    /\ GraphTurn
    /\ LET m == groups[1].mail_ids[1]
           sid == groups[1].server_id
           out == refresh_token_if_needed(server[sid], now, r1, r2)
       IN /\ ~mail[m].has_recipients
          /\ out.result # "raise"
          /\ Finish([Marked(m) EXCEPT ![m] =
                       RecordFailure(@, "No recipient specified")],
                    [server EXCEPT ![sid] = out.store], RestGroups)
          /\ done' = Append(done, m)
          /\ tokenReqs' = TokenRequested(m, out)
    /\ UNCHANGED <<now, ticks, lastCall, queue, cur, auto_commit,
                   raise_exception, batch, entryAttempted, batchQueued,
                   graphRouted, reqThisPass, smtpPass, excMails, graphReq,
                   ops, httpVars, payloadVars, raceVars, clientVars, watchVars, runVars>>

\* Loop body of _send up to requests.post(graph_url, ..., timeout=10).
GraphPost(r1, r2) ==
    /\ GraphTurn
    /\ LET m == groups[1].mail_ids[1]
           sid == groups[1].server_id
           out == refresh_token_if_needed(server[sid], now, r1, r2)
       IN /\ mail[m].has_recipients
          /\ out.result # "raise"
          /\ server' = [server EXCEPT ![sid] = out.store]
          /\ mail' = Marked(m)
          /\ graphReq' = [graphReq EXCEPT ![m] = IF @ < 2 THEN @ + 1 ELSE @]
          /\ reqThisPass' = reqThisPass \cup {m}
          /\ tokenReqs' = TokenRequested(m, out)
          /\ payload' = [payload EXCEPT
                           ![m] = ProcessAttachments(attachment_ids[m])]
          /\ cur' = m
          /\ pc' = "awaiting"
    /\ UNCHANGED <<db_mail, db_server, now, ticks, lastCall, queue, groups,
                   auto_commit, raise_exception, batch, done, entryAttempted,
                   batchQueued, graphRouted, smtpPass, excMails, ops,
                   httpVars, attachment_ids, raceVars, clientVars, watchVars, runVars>>

\* The request returns or fails with resp: the outcome is written and
\* committed.
GraphResponse(resp) ==
    /\ pc = "awaiting"
    /\ Finish([mail EXCEPT ![cur] =
                  IF resp \in {"200", "202"} THEN RecordSent(@)
                  ELSE RecordFailure(@, SendFailureReason(resp))],
              server, RestGroups)
    /\ done' = Append(done, cur)
    /\ cur' = 0
    /\ UNCHANGED <<now, ticks, lastCall, queue, auto_commit, raise_exception,
                   batch, entryAttempted, batchQueued, graphRouted,
                   reqThisPass, smtpPass, excMails, graphReq, ops,
                   tokenReqs, httpVars, payloadVars, raceVars, clientVars, watchVars, runVars>>

\* super()._send on a group that does not use Graph API: the standard path
\* sends the outgoing mails of the group and records each outcome.
SmtpDelegate ==
    /\ pc = "dispatch"
    /\ groups # <<>>
    /\ ~UsesGraph(groups[1], server)
    /\ LET ids == groups[1].mail_ids
           out == {m \in Range(ids) : mail[m].state = "outgoing"}
       IN /\ \E ok \in SUBSET out :
               Finish([m \in Mails |->
                         IF m \notin out THEN mail[m]
                         ELSE IF m \in ok THEN RecordSent(mail[m])
                         ELSE RecordFailure(mail[m], "smtp error")],
                      server, Tail(groups))
          /\ smtpPass' = smtpPass \cup Range(ids)
          /\ done' = done \o ids
    /\ UNCHANGED <<now, ticks, lastCall, queue, cur, auto_commit,
                   raise_exception, batch, entryAttempted, batchQueued,
                   graphRouted, reqThisPass, excMails, graphReq, ops,
                   tokenReqs, httpVars, payloadVars, raceVars, clientVars, watchVars, runVars>>

\* The bookkeeping of a pass is dropped when the pass is over.
ClearPass ==
    /\ groups' = <<>>
    /\ cur' = 0
    /\ auto_commit' = FALSE
    /\ raise_exception' = FALSE
    /\ batch' = {}
    /\ done' = <<>>
    /\ entryAttempted' = {}
    /\ batchQueued' = {}
    /\ graphRouted' = {}
    /\ reqThisPass' = {}
    /\ smtpPass' = {}
    /\ excMails' = {}
    /\ tokenReqs' = {}

\* return result: back in process_email_queue for the next batch, or the
\* request ends and its transaction is committed.
SendReturn ==
    /\ pc = "returned"
    /\ pc' = IF queue # <<>> THEN "queue" ELSE "idle"
    /\ IF queue # <<>>
       THEN UNCHANGED <<db_mail, db_server>>
       ELSE db_mail' = mail /\ db_server' = server
    /\ ClearPass
    /\ UNCHANGED <<mail, server, now, ticks, lastCall, queue, graphReq, ops,
                   httpVars, payloadVars, raceVars, clientVars, watchVars, runVars>>

\* raise: process_email_queue catches the exception and goes on; out of a
\* manual send the exception ends the request and the transaction is rolled
\* back to the last commit.
SendRaise ==
    /\ pc = "raised"
    /\ pc' = IF queue # <<>> THEN "queue" ELSE "idle"
    /\ IF queue # <<>>
       THEN UNCHANGED <<mail, server>>
       ELSE mail' = db_mail /\ server' = db_server
    /\ ClearPass
    /\ UNCHANGED <<db_mail, db_server, now, ticks, lastCall, queue, graphReq,
                   ops, httpVars, payloadVars, raceVars, clientVars, watchVars, runVars>>

\* The worker dies (killed, out of memory, power loss): the open
\* transaction is lost, requests already sent stay sent.
Crash ==
    /\ pc \in {"queue", "dispatch", "awaiting"}
    /\ mail' = db_mail
    /\ server' = db_server
    /\ pc' = "crashed"
    /\ queue' = <<>>
    /\ UNCHANGED <<db_mail, db_server, now, ticks, lastCall, groups, cur,
                   auto_commit, raise_exception, batch, done, entryAttempted,
                   batchQueued, graphRouted, reqThisPass, smtpPass, excMails,
                   graphReq, ops, tokenReqs, httpVars, payloadVars, raceVars, clientVars, watchVars, runVars>>

\* A new worker takes over.
Restart ==
    /\ pc = "crashed"
    /\ pc' = "idle"
    /\ ClearPass
    /\ UNCHANGED <<mail, db_mail, server, db_server, now, ticks, lastCall,
                   queue, graphReq, ops, httpVars, payloadVars, raceVars, clientVars, watchVars, runVars>>

\* The recordsets an operator picks: one mail, or all of them.
OperatorBatches == {{m} : m \in Mails} \cup {Mails}

\* The servers after the first k ones use Graph API, with credentials and
\* no token yet.  The mails are new: the first one on any server or none,
\* the others on the same server or on none; the first one may lack
\* recipients.
Init ==
    /\ \E k \in 0..NServers :
         server = [s \in Servers |-> ServerRecord(s > k, TRUE, "", "", {})]
    /\ db_server = server
    /\ fallback_to_smtp = [s \in Servers |-> TRUE]
    /\ IdsFollowCredentials
    /\ SenderConfigured
    /\ now = 0
    /\ ticks = 0
    /\ lastCall = NoCall
    /\ \E first \in 0..NServers, same \in BOOLEAN, norcpt \in 0..1 :
         mail = [m \in Mails |->
                   NewMail(IF m = 1 \/ same THEN first ELSE 0, m # norcpt)]
    /\ attachment_ids = [m \in Mails |-> <<>>]
    /\ MailInitCommon

\* Queue runs, operator sends and worker crashes.
Next ==
    \/ ProcessEmailQueue
    \/ QueueSendBatch
    \/ \E b \in OperatorBatches, ac \in BOOLEAN, re \in BOOLEAN :
         ManualSend(b, ac, re)
    \/ \E r1 \in DispatchTokenResponses, r2 \in DispatchTokenResponses :
         GraphTokenError(r1, r2)
    \/ \E r1 \in DispatchTokenResponses, r2 \in DispatchTokenResponses :
         GraphNoRecipient(r1, r2)
    \/ \E r1 \in DispatchTokenResponses, r2 \in DispatchTokenResponses :
         GraphPost(r1, r2)
    \/ \E resp \in SendResponses : GraphResponse(resp)
    \/ SmtpDelegate
    \/ SendReturn
    \/ SendRaise
    \/ Crash
    \/ Restart

Spec == Init /\ [][Next]_vars

\* Queue runs only (the scheduled job), no operator, no crash.
NextQueue ==
    \/ ProcessEmailQueue
    \/ QueueSendBatch
    \/ \E r1 \in DispatchTokenResponses, r2 \in DispatchTokenResponses :
         GraphTokenError(r1, r2)
    \/ \E r1 \in DispatchTokenResponses, r2 \in DispatchTokenResponses :
         GraphNoRecipient(r1, r2)
    \/ \E r1 \in DispatchTokenResponses, r2 \in DispatchTokenResponses :
         GraphPost(r1, r2)
    \/ \E resp \in SendResponses : GraphResponse(resp)
    \/ SmtpDelegate
    \/ SendReturn

SpecQueue == Init /\ [][NextQueue]_vars

\* Queue runs with worker crashes.
NextQueueCrash ==
    \/ ProcessEmailQueue
    \/ QueueSendBatch
    \/ \E r1 \in DispatchTokenResponses, r2 \in DispatchTokenResponses :
         GraphTokenError(r1, r2)
    \/ \E r1 \in DispatchTokenResponses, r2 \in DispatchTokenResponses :
         GraphNoRecipient(r1, r2)
    \/ \E r1 \in DispatchTokenResponses, r2 \in DispatchTokenResponses :
         GraphPost(r1, r2)
    \/ \E resp \in SendResponses : GraphResponse(resp)
    \/ SmtpDelegate
    \/ SendReturn
    \/ Crash
    \/ Restart

SpecQueueCrash == Init /\ [][NextQueueCrash]_vars

\* ------------------------------------------------- dispatcher properties
InPass == pc \in {"dispatch", "awaiting", "returned", "raised"}

\* C1 (as stated): a mail whose graph_api_attempted flag is set when _send
\* is entered gets no Graph request in that pass; it goes to the standard
\* path only.
C1_AttemptedNeverSentViaGraph ==
    InPass => \A m \in entryAttempted :
                 m \notin reqThisPass /\ m \notin graphRouted

\* C2: over successive runs of process_email_queue, without operator sends,
\* no mail gets more than one Graph request.
C2_OneGraphRequestPerMail ==
    \A m \in Mails : graphReq[m] <= 1

C2_Witness ==
    /\ pc = "idle"
    /\ ops >= 2
    /\ \E m \in Mails :
         /\ graphReq[m] = 1
         /\ mail[m].state = "exception"
         /\ mail[m].graph_api_attempted

\* C3 (as stated): when a pass of _send is over, graph_api_attempted is set
\* on a mail of the batch if and only if a Graph request was issued for it in
\* that pass.
C3_AttemptedIffRequested ==
    pc = "returned" =>
        \A m \in batch : mail[m].graph_api_attempted <=> m \in reqThisPass

\* C3 (amended): every mail for which a Graph request was issued in the pass
\* has graph_api_attempted set, from the moment of the request to the end
\* of the pass.
C3_RequestedImpliesAttempted ==
    InPass => \A m \in reqThisPass : mail[m].graph_api_attempted

C3_Witness ==
    /\ pc = "returned"
    /\ \E m \in reqThisPass : mail[m].graph_api_attempted
    /\ \E m \in batch \ reqThisPass :
         /\ mail[m].graph_api_attempted
         /\ mail[m].failure_reason = "No recipient specified"

\* C4 (as stated): during queue runs, worker crashes included, a Graph
\* request in flight for a mail is the first one ever issued for it.
C4_NoSecondRequestAfterCrash ==
    pc = "awaiting" => graphReq[cur] = 1

Settled(rec) == rec.state \in {"sent", "exception"}

\* The committed records of the running batch: the mails already processed
\* are sent or failed, the others are still outgoing.
ProcessedDurably ==
    \A m \in batchQueued :
        IF m \in Range(done) THEN Settled(db_mail[m])
        ELSE db_mail[m].state = "outgoing"

\* C5 (as stated): at every point of a batch, and after a crash at that
\* point, the committed data hold every processed mail as sent or failed
\* and every other mail of the batch as outgoing.
C5_OutcomeCommittedPerMail ==
    pc \in {"dispatch", "awaiting", "crashed"} => ProcessedDurably

\* C5 (amended): the same, for a batch sent with auto_commit (as the queue
\* run does).
C5_OutcomeCommittedWhenAutoCommit ==
    (auto_commit /\ pc \in {"dispatch", "awaiting", "crashed"})
    => ProcessedDurably

C5_Witness ==
    /\ pc = "crashed"
    /\ auto_commit
    /\ cur # 0
    /\ \E m \in batchQueued \cap Range(done) : Settled(db_mail[m])
    /\ \E m \in batchQueued \ Range(done) : db_mail[m].state = "outgoing"

\* The pass went through every mail handed to the Graph branch.
AllGraphMailsProcessed == graphRouted \subseteq Range(done)

\* C6 (as stated): an exception raised while one mail is processed does not
\* end the pass; every mail of the Graph branch is processed.
C6_ExceptionNeverEndsPass ==
    /\ pc = "raised" => AllGraphMailsProcessed
    /\ pc = "returned" => AllGraphMailsProcessed

\* C6 (amended): when raise_exception is not set, an exception raised while
\* one mail is processed is recorded on that mail as a failure and the pass
\* goes on to the end.
C6_ExceptionCaughtUnlessRaiseRequested ==
    ~raise_exception =>
        /\ pc # "raised"
        /\ pc = "returned" =>
             /\ AllGraphMailsProcessed
             /\ \A m \in excMails :
                  /\ mail[m].state = "exception"
                  /\ mail[m].failure_reason = "token refresh error"

C6_Witness ==
    /\ pc = "returned"
    /\ ~raise_exception
    /\ \E i \in 1..Len(done), j \in 1..Len(done) :
         /\ i < j
         /\ done[i] \in excMails
         /\ mail[done[i]].state = "exception"
         /\ done[j] \in reqThisPass
         /\ mail[done[j]].state = "sent"

\* ------------------------------------------------- queue runs, any answer
\* The answers of the token endpoint to the queue's runs: a transport
\* failure, a rejected grant, a token, or a 200 body without access_token.
QueueTokenResponses ==
    {RespFailure("timeout"), RespHttp(400, Absent, Absent, {}),
     RespHttp(200, "a1", Absent, {}), RespHttp(200, Absent, Absent, {})}

\* The answers of the sendMail endpoint to the queue's runs.
QueueSendResponses == {"202", "503", "timeout", "connection error"}

\* Servers as in Init, with or without credentials, never authorized or
\* authorized at time 0, with fallback_to_smtp set or not.
InitDispatch ==
    /\ \E k \in 0..NServers, c \in BOOLEAN, st \in InitialStores :
         server = [s \in Servers |->
                     ServerRecord(s > k, c, st[1], st[2], st[3])]
    /\ db_server = server
    /\ \E f \in BOOLEAN : fallback_to_smtp = [s \in Servers |-> f]
    /\ IdsFollowCredentials
    /\ SenderConfigured
    /\ now = 0
    /\ ticks = 0
    /\ lastCall = NoCall
    /\ \E first \in 0..NServers, same \in BOOLEAN, norcpt \in 0..1 :
         mail = [m \in Mails |->
                   NewMail(IF m = 1 \/ same THEN first ELSE 0, m # norcpt)]
    /\ attachment_ids = [m \in Mails |-> <<>>]
    /\ MailInitCommon

NextDispatch ==
    \/ ProcessEmailQueue
    \/ QueueSendBatch
    \/ \E r1 \in QueueTokenResponses, r2 \in QueueTokenResponses :
         GraphTokenError(r1, r2)
    \/ \E r1 \in QueueTokenResponses, r2 \in QueueTokenResponses :
         GraphNoRecipient(r1, r2)
    \/ \E r1 \in QueueTokenResponses, r2 \in QueueTokenResponses :
         GraphPost(r1, r2)
    \/ \E resp \in QueueSendResponses : GraphResponse(resp)
    \/ SmtpDelegate
    \/ SendReturn

SpecDispatch == InitDispatch /\ [][NextDispatch]_vars

\* The mails of the pass that went through the Graph branch.
GraphProcessed == graphRouted \cap Range(done)

\* C11 (as stated): a mail without recipients routed to a Graph server ends
\* as a failure with reason "No recipient specified", and neither a token
\* request nor a send request was issued for it.
C11_NoRecipientFailsWithoutNetworkCall ==
    \A m \in GraphProcessed :
        ~mail[m].has_recipients =>
            /\ mail[m].state = "exception"
            /\ mail[m].failure_reason = "No recipient specified"
            /\ m \notin tokenReqs
            /\ m \notin reqThisPass

\* The diagnostic texts _send records for a failed send request.
SendFailureTexts == {SendFailureReason(resp) : resp \in QueueSendResponses}

\* C12: a mail whose send request was rejected, timed out or failed at
\* transport level is a failure with the diagnostic text, keeps
\* graph_api_attempted set, and no further Graph request is issued for it
\* in the pass.
C12_SendFailureRecordedOnce ==
    /\ \A m \in reqThisPass \cap Range(done) :
         mail[m].state # "sent" =>
            /\ mail[m].state = "exception"
            /\ mail[m].failure_reason \in SendFailureTexts
            /\ mail[m].failure_reason # ""
            /\ mail[m].graph_api_attempted
    /\ pc = "awaiting" => cur \notin Range(done)

C12_Witness ==
    /\ pc = "returned"
    /\ \E m \in reqThisPass \cap Range(done) :
         /\ mail[m].state = "exception"
         /\ mail[m].failure_reason = SendFailureReason("timeout")
         /\ mail[m].graph_api_attempted
    /\ \E m \in reqThisPass \cap Range(done) :
         /\ mail[m].state = "exception"
         /\ mail[m].failure_reason = SendFailureReason("503")

\* ------------------------------------------------- manual resend
\* mark_outgoing() on the recordset b: the base method writes state
\* 'outgoing', the override clears graph_api_attempted, and the request
\* ends with a commit.
MarkOutgoing(b) ==
    /\ pc = "idle"
    /\ ops < MaxOps
    /\ b # {}
    /\ mail' = [m \in Mails |->
                  IF m \in b
                  THEN [mail[m] EXCEPT !.state = "outgoing",
                                       !.graph_api_attempted = FALSE]
                  ELSE mail[m]]
    /\ db_mail' = mail'
    /\ ops' = ops + 1
    /\ UNCHANGED <<pc, queue, groups, cur, auto_commit, raise_exception,
                   batch, done, entryAttempted, batchQueued, graphRouted,
                   reqThisPass, smtpPass, excMails, graphReq, tokenReqs,
                   tokenVars, httpVars, payloadVars, raceVars, clientVars, watchVars, runVars>>

\* Queue runs and an operator who marks mails outgoing again.
NextResend ==
    \/ ProcessEmailQueue
    \/ QueueSendBatch
    \/ \E b \in OperatorBatches : MarkOutgoing(b)
    \/ \E r1 \in DispatchTokenResponses, r2 \in DispatchTokenResponses :
         GraphTokenError(r1, r2)
    \/ \E r1 \in DispatchTokenResponses, r2 \in DispatchTokenResponses :
         GraphNoRecipient(r1, r2)
    \/ \E r1 \in DispatchTokenResponses, r2 \in DispatchTokenResponses :
         GraphPost(r1, r2)
    \/ \E resp \in SendResponses : GraphResponse(resp)
    \/ SmtpDelegate
    \/ SendReturn

SpecResend == Init /\ [][NextResend]_vars

\* The step clears graph_api_attempted on mail m.
FlagReset(m) ==
    mail[m].graph_api_attempted /\ ~mail'[m].graph_api_attempted

\* The step issues a Graph request for mail m.
RequestIssued(m) == m \notin reqThisPass /\ m \in reqThisPass'

\* C13 (as stated): the flag is cleared only on mails that are not sent,
\* and a Graph request is issued for a mail only while its flag is clear,
\* so that each reset allows one more attempt.
C13_ResetOnlyUnsentThenOneAttempt ==
    [][\A m \in Mails :
         /\ FlagReset(m) => mail[m].state # "sent"
         /\ RequestIssued(m) => ~mail[m].graph_api_attempted]_vars

\* C14 (as stated): a mail in state sent that is passed to send again is
\* left alone: no Graph request is ever in flight for a mail whose state is
\* sent.
C14_SentMailNotSentAgain ==
    pc = "awaiting" => mail[cur].state # "sent"

\* The Graph transport failed for mail m in this pass: its token refresh
\* raised, or its send request was rejected or failed.
GraphTransportFailed(m) ==
    \/ m \in excMails
    \/ /\ m \in reqThisPass \cap Range(done)
       /\ mail[m].state = "exception"

\* C15 (as stated): on a server with fallback_to_smtp set, a mail whose
\* Graph transport failed is handed to the standard (SMTP) path and is not
\* left as a failure of the Graph transport.
C15_FallbackToSmtpOnGraphFailure ==
    \A m \in GraphProcessed :
        (fallback_to_smtp[mail[m].mail_server_id] /\ GraphTransportFailed(m))
        => m \in smtpPass

\* C16 (as stated): whenever a send request is in flight, the access token
\* stored on the mail's server is not empty.
C16_NoSendWithEmptyToken ==
    pc = "awaiting" => server[mail[cur].mail_server_id].ms_access_token # ""

\* C17 (as stated): an error of the token endpoint is recorded on the mail
\* as a failure, and an error of the configuration (incomplete credentials)
\* is raised to the caller of _send.
C17_OnlyConfigErrorsPropagate ==
    \A m \in excMails :
        IF server[mail[m].mail_server_id].credentials
        THEN mail[m].state = "exception" /\ mail[m].failure_reason # ""
        ELSE pc = "raised"

\* The token endpoint failed for mail m in this pass.
TokenEndpointFailed(m) == m \in excMails \cap tokenReqs

\* C18 (as stated): once the token refresh has failed on a server in this
\* pass, every mail of the pass processed through that server is a failure,
\* and the server still uses Graph API with its credentials.
C18_AllMailsOfServerFailed ==
    \A m \in excMails : \A o \in GraphProcessed :
        (TokenEndpointFailed(m)
         /\ mail[o].mail_server_id = mail[m].mail_server_id)
        => /\ mail[o].state = "exception"
           /\ server[mail[m].mail_server_id].use_graph_api
           /\ server[mail[m].mail_server_id].credentials

\* C18 (amended): every mail whose own token refresh failed is a failure
\* with the error text; the server still uses Graph API with its
\* credentials, and the next mail of the server asks for a token again.
C18_FailedRefreshMarksMailOnly ==
    \A i \in 1..Len(done) :
        TokenEndpointFailed(done[i]) =>
            LET m == done[i]
                sid == mail[m].mail_server_id
            IN /\ mail[m].state = "exception"
               /\ mail[m].failure_reason = "token refresh error"
               /\ server[sid].use_graph_api
               /\ server[sid].credentials
               /\ \A j \in 1..Len(done) :
                    (j = i + 1 /\ mail[done[j]].mail_server_id = sid)
                    => done[j] \in tokenReqs

C18_Witness ==
    /\ pc = "returned"
    /\ Len(done) >= 2
    /\ TokenEndpointFailed(done[1])
    /\ mail[done[1]].failure_reason = "token refresh error"
    /\ mail[done[2]].mail_server_id = mail[done[1]].mail_server_id
    /\ done[2] \in tokenReqs
    /\ mail[done[2]].state = "sent"

\* ------------------------------------------------- authorization endpoints
\* Two controllers register /mail_graph_api/auth and
\* /mail_graph_api/auth/callback: MicrosoftAuthController (controllers/
\* main.py) and MicrosoftGraphAuthController (controllers/auth.py).  Either
\* may answer a request.
StartHandlers == {"main.microsoft_auth_start", "auth.microsoft_auth"}
CallbackHandlers ==
    {"main.microsoft_auth_callback", "auth.microsoft_auth_callback"}

\* Answers of the token endpoint to an authorization-code exchange.
AuthResponses ==
    {RespFailure("timeout"), RespHttp(400, Absent, Absent, {}),
     RespHttp(200, "a1", "r1", {}), RespHttp(200, "a1", Absent, {}),
     RespHttp(200, Absent, Absent, {})}

\* Ids a request can name: none, one of the first two servers, or a record
\* that does not exist.
AuthTargets == Servers \cap {1, 2}
RequestIds == {NoParam} \cup AuthTargets \cup {NServers + 1}
RequestStates == {NoParam, NotANumber} \cup AuthTargets \cup {NServers + 1}

StartRequests == {Kw(id, NoParam, Absent, Absent, Absent) : id \in RequestIds}
CallbackRequests ==
    {Kw(NoParam, st, code, Absent, Absent) :
        st \in RequestStates, code \in {Absent, "c1"}}
    \cup {Kw(NoParam, st, code, "access_denied", d) :
            st \in {1}, code \in {Absent, "c1"},
            d \in {Absent, "user declined"}}

\* mail_server.exists()
Exists(id) == id \in Servers

\* str(x) of a value that may be None
StrOf(x) == IF x = Absent THEN "None" ELSE x

\* A network call of a handler: what is called, the timeout argument
\* (NoTimeout: none is passed) and the answer.
NoTimeout == 0
Request(call, timeout, resp) ==
    [call |-> call, timeout |-> timeout, resp |-> resp]

\* Answers of GET /v1.0/me.
Profile(status, address, upn) ==
    [kind |-> "http", status_code |-> status, mail |-> address,
     userPrincipalName |-> upn]

ProfileResponses ==
    {[kind |-> "timeout", status_code |-> 0, mail |-> Absent,
      userPrincipalName |-> Absent],
     Profile(401, Absent, Absent),
     Profile(200, "me@example.com", "upn@example.com"),
     Profile(200, Absent, "upn@example.com")}

\* user_info.get('mail') or user_info.get('userPrincipalName')
ProfileAddress(p) ==
    IF Get(p.mail) # "" THEN p.mail ELSE Get(p.userPrincipalName)

\* What a handler answered: an error page with its text, the success page,
\* or a redirect to the provider's authorize URL carrying state.
Http(h, admin, kw, page, message, state, reqs) ==
    [handler |-> h, admin |-> admin, kw |-> kw, page |-> page,
     message |-> message, redirect_state |-> state, reqs |-> reqs]

ErrorPage(h, admin, kw, message, reqs) ==
    Http(h, admin, kw, "error", message, NoParam, reqs)

\* A request that ends without writing a record.
Answer(http) ==
    /\ lastHttp' = http
    /\ UNCHANGED <<server, db_server, ms_sender_email>>

\* A request that wrote server s; the transaction commits when it ends.
AnswerWriting(http, s, rec, sender) ==
    /\ lastHttp' = http
    /\ server' = [server EXCEPT ![s] = rec]
    /\ db_server' = server'
    /\ ms_sender_email' = [ms_sender_email EXCEPT ![s] = sender]

HttpFrame ==
    /\ pc = "idle"
    /\ ops < MaxOps
    /\ ops' = ops + 1
    /\ UNCHANGED <<now, ticks, lastCall, mail, db_mail, pc, queue, groups,
                   cur, auto_commit, raise_exception, batch, done,
                   entryAttempted, batchQueued, graphRouted, reqThisPass,
                   smtpPass, excMails, graphReq, tokenReqs,
                   fallback_to_smtp, ms_client_id, ms_tenant_id,
                   payloadVars, raceVars, clientVars, watchVars, runVars>>

\* MicrosoftAuthController.microsoft_auth_start
MainAuthStart(admin, kw) ==
    LET h == "main.microsoft_auth_start"
        id == kw.id
    IN /\ HttpFrame
       /\ IF id = NoParam
          THEN Answer(ErrorPage(h, admin, kw, <<"No mail server ID provided. Please try again.">>, <<>>))
          ELSE IF ~Exists(id) \/ ~server[id].use_graph_api
          THEN Answer(ErrorPage(h, admin, kw, <<"Invalid mail server or Graph API not enabled.">>, <<>>))
          ELSE IF ~ms_client_id[id] \/ ~ms_tenant_id[id]
          THEN Answer(ErrorPage(h, admin, kw, <<"Microsoft Graph API client ID or tenant ID not configured.">>, <<>>))
          ELSE Answer(Http(h, admin, kw, "redirect", <<>>, id, <<>>))

\* search([('use_graph_api', '=', True)], limit=1): the first such server,
\* NoParam when there is none.
FirstGraphServer ==
    IF \E s \in Servers : server[s].use_graph_api
    THEN CHOOSE s \in Servers :
           /\ server[s].use_graph_api
           /\ \A o \in Servers : server[o].use_graph_api => s <= o
    ELSE NoParam

\* MicrosoftGraphAuthController.microsoft_auth with
\* IrMailServer.action_authenticate_microsoft
AuthStart(admin, kw) ==
    LET h == "auth.microsoft_auth"
        id == IF kw.id = NoParam THEN FirstGraphServer ELSE kw.id
    IN /\ HttpFrame
       /\ IF ~admin
          THEN Answer(ErrorPage(h, admin, kw, <<"Only administrators can configure outgoing mail servers.">>, <<>>))
          ELSE IF id = NoParam
          THEN Answer(ErrorPage(h, admin, kw, <<"No mail server with Microsoft Graph API enabled found. Please configure one first.">>, <<>>))
          ELSE IF ~Exists(id)
          THEN Answer(ErrorPage(h, admin, kw, <<"Mail server not found.">>, <<>>))
          ELSE IF ~ms_client_id[id] \/ ~ms_tenant_id[id]
          THEN Answer(ErrorPage(h, admin, kw, <<"Client ID and Tenant ID are required for Microsoft Graph API authentication.">>, <<>>))
          ELSE Answer(Http(h, admin, kw, "redirect", <<>>, id, <<>>))

\* Slip: the error parameter of the callback is not looked at.
CallbackRejected_ignored(kw) == FALSE

\* error = kw.get('error'); if error: ...
CallbackRejected(kw) == kw.error # Absent

\* Slip: the code parameter of the callback is not looked at.
MissingCode_ignored(kw) == FALSE

\* code = kw.get('code'); if not code: ...
MissingCode(kw) == kw.code = Absent

\* Slip: the sender mailbox is looked up whether or not one is configured.
SenderMissing_always(s) == TRUE

\* if not mail_server.ms_sender_email
SenderMissing(s) == ms_sender_email[s] = ""

\* MicrosoftAuthController.microsoft_auth_callback
MainAuthCallback(admin, kw) ==
    LET h == "main.microsoft_auth_callback"
        s == kw.state
    IN /\ HttpFrame
       /\ IF CallbackRejected(kw)
          THEN Answer(ErrorPage(h, admin, kw, <<StrOf(kw.error), ": ", Get(kw.error_description)>>, <<>>))
          ELSE IF MissingCode(kw)
          THEN Answer(ErrorPage(h, admin, kw, <<"No authorization code received from Microsoft.">>, <<>>))
          ELSE IF s = NoParam
          THEN Answer(ErrorPage(h, admin, kw, <<"No state parameter received. Authentication failed.">>, <<>>))
          ELSE IF s = NotANumber
          THEN Answer(ErrorPage(h, admin, kw, <<"Invalid state parameter.">>, <<>>))
          ELSE IF ~Exists(s)
          THEN Answer(ErrorPage(h, admin, kw, <<"Mail server not found.">>, <<>>))
          ELSE \E resp \in AuthResponses :
                 LET exchange == Request("authorization_code", 10, resp)
                     rec == [server[s] EXCEPT
                               !.ms_access_token = Get(resp.access_token),
                               !.ms_refresh_token = Get(resp.refresh_token),
                               !.ms_token_expiry = {now + ExpiresIn(resp)}]
                 IN IF resp.kind # "http"
                    THEN Answer(ErrorPage(h, admin, kw, <<"Error authenticating with Microsoft Graph API: ", resp.kind>>, <<exchange>>))
                    ELSE IF resp.status_code # 200
                    THEN Answer(ErrorPage(h, admin, kw, <<"Failed to authenticate with Microsoft Graph API: ", "response text">>, <<exchange>>))
                    ELSE IF ~SenderMissing(s)
                    THEN AnswerWriting(
                           Http(h, admin, kw, "success", <<>>, NoParam, <<exchange>>),
                           s, rec, ms_sender_email[s])
                    ELSE \E p \in ProfileResponses :
                           AnswerWriting(
                             Http(h, admin, kw, "success", <<>>, NoParam,
                                  <<exchange, Request("profile", 10, p)>>),
                             s, rec,
                             IF p.kind = "http" /\ p.status_code = 200
                             THEN ProfileAddress(p) ELSE ms_sender_email[s])

\* MicrosoftGraphAuthController.microsoft_auth_callback
AuthCallback(admin, kw) ==
    LET h == "auth.microsoft_auth_callback"
        s == kw.state
    IN /\ HttpFrame
       /\ IF CallbackRejected(kw)
          THEN Answer(ErrorPage(h, admin, kw, <<StrOf(kw.error_description)>>, <<>>))
          ELSE IF MissingCode(kw) \/ s = NoParam
          THEN Answer(ErrorPage(h, admin, kw, <<"Missing authorization code or state parameter.">>, <<>>))
          ELSE IF s = NotANumber
          THEN Answer(ErrorPage(h, admin, kw, <<"Invalid state parameter.">>, <<>>))
          ELSE IF ~Exists(s)
          THEN Answer(ErrorPage(h, admin, kw, <<"Mail server not found.">>, <<>>))
          ELSE IF ~admin
          THEN Answer(ErrorPage(h, admin, kw, <<"Only administrators can configure outgoing mail servers.">>, <<>>))
          ELSE \E resp \in AuthResponses :
                 LET exchange == Request("authorization_code", NoTimeout, resp)
                 IN IF resp.kind # "http"
                    THEN Answer(ErrorPage(h, admin, kw, <<"Failed to retrieve OAuth token: ", resp.kind>>, <<exchange>>))
                    ELSE IF resp.status_code # 200
                    THEN Answer(ErrorPage(h, admin, kw, <<"Failed to retrieve OAuth token: ", "response text">>, <<exchange>>))
                    ELSE IF resp.access_token = Absent
                    THEN Answer(ErrorPage(h, admin, kw, <<"No access token received from Microsoft.">>, <<exchange>>))
                    ELSE AnswerWriting(
                           Http(h, admin, kw, "success", <<>>, NoParam, <<exchange>>), s,
                           [server[s] EXCEPT
                              !.ms_access_token = Get(resp.access_token),
                              !.ms_token_expiry = {now + ExpiresIn(resp)},
                              !.use_graph_api = TRUE,
                              !.ms_refresh_token =
                                 IF resp.refresh_token # Absent
                                 THEN Get(resp.refresh_token) ELSE @],
                           ms_sender_email[s])

\* Servers 1..k use Graph API; client id and tenant id are set or not; the
\* servers were never authorized, or authorized at time 0.
InitAuth ==
    /\ \E cid \in BOOLEAN, tid \in BOOLEAN :
         /\ ms_client_id = [s \in Servers |-> cid]
         /\ ms_tenant_id = [s \in Servers |-> tid]
    /\ \E k \in 0..NServers, st \in InitialStores :
         server = [s \in Servers |->
                     ServerRecord(s <= k, ms_client_id[s] /\ ms_tenant_id[s],
                                  st[1], st[2], st[3])]
    /\ \E sender \in {"", "sender@example.com"} :
         ms_sender_email = [s \in Servers |-> sender]
    /\ db_server = server
    /\ fallback_to_smtp = [s \in Servers |-> TRUE]
    /\ now = 0
    /\ ticks = 0
    /\ lastCall = NoCall
    /\ mail = [m \in Mails |-> NewMail(0, TRUE)]
    /\ attachment_ids = [m \in Mails |-> <<>>]
    /\ MailInitCommon

NextAuth ==
    \/ \E admin \in BOOLEAN, kw \in StartRequests : MainAuthStart(admin, kw)
    \/ \E admin \in BOOLEAN, kw \in StartRequests : AuthStart(admin, kw)
    \/ \E admin \in BOOLEAN, kw \in CallbackRequests :
         MainAuthCallback(admin, kw)
    \/ \E admin \in BOOLEAN, kw \in CallbackRequests : AuthCallback(admin, kw)

SpecAuth == InitAuth /\ [][NextAuth]_vars

\* Handler h answered a request in this step.
RequestHandled(h) == ops' = ops + 1 /\ lastHttp'.handler = h

\* C19: a callback request that carries an error parameter is answered with
\* the error page, which shows the error description when one is given; no
\* token exchange request is made and no server record is written.
C19_CallbackErrorNoExchangeNoWrite ==
    [][\A h \in CallbackHandlers :
         (RequestHandled(h) /\ lastHttp'.kw.error # Absent)
         => /\ lastHttp'.page = "error"
            /\ lastHttp'.kw.error_description # Absent
               => lastHttp'.kw.error_description \in Range(lastHttp'.message)
            /\ lastHttp'.reqs = <<>>
            /\ server' = server
            /\ db_server' = db_server]_vars

C19_Witness ==
    /\ lastHttp.handler \in CallbackHandlers
    /\ lastHttp.admin
    /\ lastHttp.kw.error = "access_denied"
    /\ lastHttp.kw.error_description = "user declined"
    /\ lastHttp.kw.code = "c1"
    /\ lastHttp.kw.state \in Servers
    /\ lastHttp.page = "error"
    /\ "user declined" \in Range(lastHttp.message)
    /\ lastHttp.reqs = <<>>

\* C38: the authorization callback exchanges the code and writes tokens
\* only for an administrator; a callback from another user issues no token
\* request and changes no server record.
C38_CallbackExchangesOnlyForAdmin ==
    [][\A h \in CallbackHandlers :
         (RequestHandled(h) /\ ~lastHttp'.admin)
         => /\ lastHttp'.reqs = <<>>
            /\ server' = server
            /\ db_server' = db_server
            /\ ms_sender_email' = ms_sender_email]_vars

\* C38 for the callback of controllers/auth.py alone.
C38_AuthCallbackExchangesOnlyForAdmin ==
    [][(RequestHandled("auth.microsoft_auth_callback") /\ ~lastHttp'.admin)
         => /\ lastHttp'.reqs = <<>>
            /\ server' = server
            /\ db_server' = db_server
            /\ ms_sender_email' = ms_sender_email]_vars

\* C39: a callback without a code, without a state, or with a state that
\* is not the id of an existing server issues no token-exchange request
\* and leaves every server record as it was.
C39_MalformedCallbackNoExchangeNoWrite ==
    [][\A h \in CallbackHandlers :
         (/\ RequestHandled(h)
          /\ \/ lastHttp'.kw.code = Absent
             \/ lastHttp'.kw.state = NoParam
             \/ lastHttp'.kw.state = NotANumber
             \/ ~Exists(lastHttp'.kw.state))
         => /\ lastHttp'.reqs = <<>>
            /\ lastHttp'.page = "error"
            /\ server' = server
            /\ db_server' = db_server]_vars

C39_Witness ==
    /\ lastHttp.handler \in CallbackHandlers
    /\ lastHttp.admin
    /\ lastHttp.kw.error = Absent
    /\ lastHttp.kw.code = "c1"
    /\ lastHttp.kw.state = NServers + 1
    /\ lastHttp.page = "error"
    /\ lastHttp.message = <<"Mail server not found.">>
    /\ lastHttp.reqs = <<>>
    /\ \E s \in Servers : server[s].ms_access_token # ""

\* C20 (as stated): the start endpoint answers with a redirect only to an
\* administrator and only for a server with client id and tenant id, with
\* the server's id as state; every other request gets an error page.
C20_StartRedirectsOnlyForAdmin ==
    lastHttp.handler \in StartHandlers =>
        IF lastHttp.page = "redirect"
        THEN /\ lastHttp.admin
             /\ lastHttp.redirect_state \in Servers
             /\ lastHttp.kw.id \in {NoParam, lastHttp.redirect_state}
             /\ ms_client_id[lastHttp.redirect_state]
             /\ ms_tenant_id[lastHttp.redirect_state]
        ELSE lastHttp.page = "error"

\* ------------------------------------------------- attachments
\* The datas lengths the attachments are drawn from, and the lists of
\* attachments of a mail; the attachments of a mail are named by position.
AttachmentDatas == {NoData, 1, 20 * MiB, 35 * MiB, 35 * MiB + 1}
AttachmentName(i) == <<"file", i>>

RECURSIVE AttachmentLists(_)
AttachmentLists(n) ==
    IF n = 0 THEN {<<>>}
    ELSE LET shorter == AttachmentLists(n - 1)
         IN shorter \cup
            {Append(l, Attachment(AttachmentName(Len(l) + 1), d)) :
                l \in {x \in shorter : Len(x) = n - 1}, d \in AttachmentDatas}

\* One Graph-enabled server whose token is valid or not; the first mail has
\* attachments.
InitAttach ==
    /\ \E st \in InitialStores :
         server = [s \in Servers |->
                     ServerRecord(s = 1, s = 1, st[1], st[2], st[3])]
    /\ db_server = server
    /\ fallback_to_smtp = [s \in Servers |-> TRUE]
    /\ IdsFollowCredentials
    /\ SenderConfigured
    /\ now = 0
    /\ ticks = 0
    /\ lastCall = NoCall
    /\ mail = [m \in Mails |-> NewMail(1, TRUE)]
    /\ \E l \in AttachmentLists(MaxAttachments) :
         attachment_ids = [m \in Mails |-> IF m = 1 THEN l ELSE <<>>]
    /\ MailInitCommon

\* Queue runs over mails that have recipients and sit on a Graph server.
NextAttach ==
    \/ ProcessEmailQueue
    \/ QueueSendBatch
    \/ \E r1 \in QueueTokenResponses, r2 \in QueueTokenResponses :
         GraphTokenError(r1, r2)
    \/ \E r1 \in QueueTokenResponses, r2 \in QueueTokenResponses :
         GraphPost(r1, r2)
    \/ \E resp \in QueueSendResponses : GraphResponse(resp)
    \/ SendReturn

SpecAttach == InitAttach /\ [][NextAttach]_vars

\* The attachments of list atts that payload p carries, by position.
Carried(p, atts) ==
    {i \in 1..Len(atts) :
        \E j \in 1..Len(p.attachments) : p.attachments[j].name = atts[i].name}

RECURSIVE SumDatas(_, _)
SumDatas(atts, S) ==
    IF S = {} THEN 0
    ELSE LET i == CHOOSE x \in S : TRUE
         IN atts[i].datas + SumDatas(atts, S \ {i})

ThreadToken(t) == IF t = 1 THEN "a1" ELSE "a2"
ThreadRefreshToken(t) == IF t = 1 THEN "r1" ELSE "r2"

\* Successful answers to worker t.
RaceGrants(t) ==
    {RespHttp(200, ThreadToken(t), r, e) :
        r \in {Absent, ThreadRefreshToken(t)},
        e \in {{}, {FiveMinutes + 1}}}

\* The answer to the first request of worker t: the refresh-token grant of
\* a server that holds a refresh token may be rejected.
RaceFirstAnswers(t) ==
    RaceGrants(t) \cup
    (IF thread[t].snap.ms_refresh_token # ""
     THEN {RespHttp(400, Absent, Absent, {})} ELSE {})

\* Slip: the access token is written without its expiry.
WriteValues_token_only(rec, snap, new) ==
    [rec EXCEPT !.ms_access_token = new.ms_access_token]

\* self.write(values): one update that carries the access token and the
\* expiry, and the refresh token when values holds one.
WriteValues(rec, snap, new) ==
    [rec EXCEPT !.ms_access_token = new.ms_access_token,
                !.ms_token_expiry = new.ms_token_expiry,
                !.ms_refresh_token =
                    IF new.ms_refresh_token # snap.ms_refresh_token
                    THEN new.ms_refresh_token ELSE @]

RaceFrame ==
    /\ pc = "idle"
    /\ UNCHANGED <<now, ticks, lastCall, mailVars, httpVars, payloadVars,
                   clientVars, watchVars, runVars>>

\* Worker t enters refresh_token_if_needed on server 1 and reads the
\* record: use_graph_api, the expiry against now + 5 minutes, the refresh
\* token.
ThreadCheck(t) ==
    /\ RaceFrame
    /\ thread[t].pc = "idle"
    /\ LET snap == server[1]
           quiet == refresh_token_if_needed(snap, now, NoResp, NoResp)
       IN thread' = [thread EXCEPT ![t] =
                       IF ~snap.use_graph_api \/ ~TokenExpired(snap, now)
                       THEN [pc |-> "done", at |-> now, snap |-> snap,
                             out |-> quiet]
                       ELSE [pc |-> "requesting", at |-> now, snap |-> snap,
                             out |-> @.out]]
    /\ UNCHANGED <<server, db_server>>

\* The requests of worker t are answered.
ThreadRequest(t) ==
    /\ RaceFrame
    /\ thread[t].pc = "requesting"
    /\ \E r1 \in RaceFirstAnswers(t), r2 \in RaceGrants(t) :
         LET out == refresh_token_if_needed(thread[t].snap, thread[t].at,
                                            r1, r2)
         IN thread' = [thread EXCEPT ![t].out = out,
                                     ![t].pc = IF out.result = "ok"
                                               THEN "writing" ELSE "done"]
    /\ UNCHANGED <<server, db_server>>

\* Worker t writes what it obtained.
ThreadWrite(t) ==
    /\ RaceFrame
    /\ thread[t].pc = "writing"
    /\ server' = [server EXCEPT
                    ![1] = WriteValues(@, thread[t].snap, thread[t].out.store)]
    /\ db_server' = server'
    /\ thread' = [thread EXCEPT ![t].pc = "done"]

\* Server 1 uses Graph API with complete credentials; it was never
\* authorized, or authorized at time 0.
InitRace ==
    /\ \E st \in InitialStores :
         server = [s \in Servers |->
                     IF s = 1 THEN ServerRecord(TRUE, TRUE, st[1], st[2], st[3])
                     ELSE NewServer]
    /\ db_server = server
    /\ fallback_to_smtp = [s \in Servers |-> TRUE]
    /\ IdsFollowCredentials
    /\ SenderConfigured
    /\ now = 0
    /\ ticks = 0
    /\ lastCall = NoCall
    /\ mail = [m \in Mails |-> NewMail(0, TRUE)]
    /\ attachment_ids = [m \in Mails |-> <<>>]
    /\ MailInitCommon

NextRace ==
    \/ \E t \in Threads : ThreadCheck(t)
    \/ \E t \in Threads : ThreadRequest(t)
    \/ \E t \in Threads : ThreadWrite(t)
    \/ Tick

SpecRace == InitRace /\ [][NextRace]_vars

\* The workers whose call has written the token store.
Writers ==
    {t \in Threads : thread[t].pc = "done" /\ thread[t].out.reqs # <<>>
                     /\ thread[t].out.result = "ok"}

BothDone == \A t \in Threads : thread[t].pc = "done"

C23_EveryRequestHasTimeout ==
    \A i \in 1..Len(lastHttp.reqs) :
        LET r == lastHttp.reqs[i]
        IN /\ r.timeout # NoTimeout
           /\ r.timeout \in {10, 30}
           /\ r.timeout = 30 => r.call = "authorization_code"

\* C30: a callback that ends with the success page has stored the access
\* token, the refresh token and the expiry of the provider's answer on the
\* server named by state; no other server is touched; the sender mailbox is
\* looked up, and written, only for a server that had none.
C30_CallbackStoresOnStateServerOnly ==
    [][\A h \in CallbackHandlers :
         (RequestHandled(h) /\ lastHttp'.page = "success")
         => LET s == lastHttp'.kw.state
                x == lastHttp'.reqs[1].resp
                looked_up == Len(lastHttp'.reqs) > 1
            IN /\ s \in Servers
               /\ lastHttp'.reqs[1].call = "authorization_code"
               /\ server'[s].ms_access_token = Get(x.access_token)
               /\ x.refresh_token # Absent
                  => server'[s].ms_refresh_token = x.refresh_token
               /\ server'[s].ms_token_expiry = {now + ExpiresIn(x)}
               /\ db_server' = server'
               /\ \A o \in Servers \ {s} :
                    /\ server'[o] = server[o]
                    /\ ms_sender_email'[o] = ms_sender_email[o]
               /\ looked_up => ms_sender_email[s] = ""
               /\ ms_sender_email'[s] # ms_sender_email[s] => looked_up]_vars

C30_Witness ==
    /\ lastHttp.handler \in CallbackHandlers
    /\ lastHttp.page = "success"
    /\ lastHttp.kw.state = 2
    /\ Len(lastHttp.reqs) = 2
    /\ ms_sender_email[2] = "me@example.com"
    /\ ms_sender_email[1] = ""
    /\ server[2].ms_access_token = "a1"
    /\ server[2].ms_refresh_token = "r1"
    /\ server[1].ms_access_token = ""

\* The processing of mail m ends in this step.
Finished(m) == m \notin Range(done) /\ m \in Range(done')

MustObtainToken ==
    /\ lastCall.op \in {"refresh_token_if_needed", "_get_oauth_token",
                        "ir_refresh_token_if_needed"}
    /\ lastCall.pre.use_graph_api
    /\ lastCall.pre.credentials
    /\ IF lastCall.op = "_get_oauth_token"
       THEN ~CachedTokenValid(lastCall.pre, lastCall.at)
       ELSE TokenExpired(lastCall.pre, lastCall.at)

\* C25 (as stated): when a token must be obtained, the requests of the call
\* are refresh-token grants if a refresh token is stored and one
\* client-credentials grant otherwise; a server without a stored refresh
\* token issues its request instead of failing.
C25_GrantFollowsStoredRefreshToken ==
    MustObtainToken =>
        /\ lastCall.reqs # <<>>
        /\ \A i \in 1..Len(lastCall.reqs) :
             lastCall.reqs[i] = "refresh_token"
                 <=> lastCall.pre.ms_refresh_token # ""
        /\ \A i \in 1..Len(lastCall.reqs) :
             lastCall.reqs[i] \in {"refresh_token", "client_credentials"}
        /\ (lastCall.pre.ms_refresh_token = "" /\ lastCall.first = "200")
               => lastCall.result = "ok"

\* token_expiry is absent or at most five minutes ahead.
Borderline(srv, t) ==
    \/ srv.ms_token_expiry = {}
    \/ \E e \in srv.ms_token_expiry : e <= t + FiveMinutes

\* C26: a token procedure called on a Graph-enabled server whose
\* token_expiry is absent or at most now + 5 minutes does not return the
\* stored token: it issues a token request, or it raises.
C26_BorderlineTokenIsRefreshed ==
    (/\ lastCall.op \in {"refresh_token_if_needed", "_get_oauth_token",
                         "ir_refresh_token_if_needed"}
     /\ lastCall.pre.use_graph_api
     /\ Borderline(lastCall.pre, lastCall.at))
    => (lastCall.reqs # <<>> \/ lastCall.result = "raise")

\* The stored token expires exactly five minutes after the call, and the
\* call replaces it.
C26_Witness ==
    /\ lastCall.op = "refresh_token_if_needed"
    /\ lastCall.pre.use_graph_api
    /\ lastCall.pre.ms_access_token # ""
    /\ lastCall.pre.ms_token_expiry = {lastCall.at + FiveMinutes}
    /\ lastCall.reqs # <<>>
    /\ lastCall.result = "ok"
    /\ server[lastCall.srv].ms_token_expiry
         = {lastCall.at + ExpiresIn(lastCall.resp)}

\* The step is the grouping part of _send.
Grouping == pc \in {"idle", "queue"} /\ pc' = "dispatch"

\* The servers that use Graph API.
GraphEnabled == {s \in Servers : server[s].use_graph_api}

\* C27: a mail that enters a batch without a server and without the
\* attempted flag is given the first Graph-enabled server in sequence order
\* and joins the mails of the Graph branch when such a server exists, and
\* keeps no server otherwise; when the pass returns, every mail of the Graph
\* branch has been processed there and not by the standard path, and every
\* other mail has been handed to the standard path.
C27_UnassignedMailGetsFirstGraphServer ==
    [][/\ Grouping =>
            \A m \in batch' :
                (mail[m].mail_server_id = 0 /\ m \notin entryAttempted') =>
                    IF GraphEnabled # {}
                    THEN /\ mail'[m].mail_server_id \in GraphEnabled
                         /\ \A o \in GraphEnabled :
                                mail'[m].mail_server_id <= o
                         /\ m \in graphRouted'
                    ELSE /\ mail'[m].mail_server_id = 0
                         /\ m \notin graphRouted'
       /\ pc' = "returned" =>
            /\ graphRouted' \subseteq Range(done') \ smtpPass'
            /\ batch' \ graphRouted' \subseteq smtpPass'
            /\ \A m \in graphRouted' :
                   m \in reqThisPass' \/ mail'[m].state = "exception"]_vars

\* A mail without a server has been given server 2, the first that uses
\* Graph API, and its request is on its way.
C27_Witness ==
    /\ pc = "awaiting"
    /\ ~server[1].use_graph_api
    /\ db_mail[cur].mail_server_id = 0
    /\ mail[cur].mail_server_id = 2
    /\ cur \in graphRouted
    /\ graphReq[cur] = 1

\* An administrator unticks 'Use Graph API' on the form of server s.
DisableGraphApi(s) ==
    /\ IdleMailState
    /\ server[s].use_graph_api
    /\ server' = [server EXCEPT ![s].use_graph_api = FALSE]
    /\ db_server' = [db_server EXCEPT ![s].use_graph_api = FALSE]
    /\ UNCHANGED <<now, ticks, lastCall, httpVars, payloadVars, raceVars, clientVars, watchVars, runVars>>

\* Queue runs and operator sends, with servers taken off Graph API between
\* the passes.
NextReconfig ==
    \/ ProcessEmailQueue
    \/ QueueSendBatch
    \/ \E b \in OperatorBatches : ManualSend(b, FALSE, FALSE)
    \/ \E s \in Servers : DisableGraphApi(s)
    \/ \E r1 \in DispatchTokenResponses, r2 \in DispatchTokenResponses :
         GraphTokenError(r1, r2)
    \/ \E r1 \in DispatchTokenResponses, r2 \in DispatchTokenResponses :
         GraphNoRecipient(r1, r2)
    \/ \E r1 \in DispatchTokenResponses, r2 \in DispatchTokenResponses :
         GraphPost(r1, r2)
    \/ \E resp \in SendResponses : GraphResponse(resp)
    \/ SmtpDelegate
    \/ SendReturn

SpecReconfig == Init /\ [][NextReconfig]_vars

\* The number of times mail m is in the list of processed mails.
TimesDone(m) == Cardinality({i \in 1..Len(done) : done[i] = m})

\* C28 (as stated): a mail that enters a batch on a server that does not
\* use Graph API stays out of the Graph branch and keeps its server and its
\* attempted flag; when the pass returns, every mail on such a server has
\* been handed to the standard path once, with no Graph request and no
\* token request.
C28_NonGraphMailOnlyDelegated ==
    [][/\ Grouping =>
            \A m \in batch' :
                (/\ mail[m].mail_server_id # 0
                 /\ ~server[mail[m].mail_server_id].use_graph_api)
                => /\ m \notin graphRouted'
                   /\ mail'[m].mail_server_id = mail[m].mail_server_id
                   /\ mail'[m].graph_api_attempted
                          => mail[m].graph_api_attempted
       /\ pc' = "returned" =>
            \A m \in batch' :
                (/\ mail'[m].mail_server_id # 0
                 /\ ~server'[mail'[m].mail_server_id].use_graph_api)
                => /\ m \in smtpPass'
                   /\ m \notin reqThisPass' \cup tokenReqs'
                   /\ TimesDone(m)' = 1
                   /\ mail'[m].graph_api_attempted
                          => m \in entryAttempted']_vars

\* ------------------------------------------------- sendMail responses
SendStatuses == {200, 201, 202, 204, 400, 401, 503}

SendTexts ==
    {<<>>, <<"Service Unavailable">>,
     <<"{\"error\": {\"code\": \"ErrorAccessDenied\"}}", "\n">>}

SendRequestIds == {Absent, "", "req-1"}

MessageIds == {Absent, "<msg-1@example.com>"}

ClientSendResponses ==
    {SendResponse(c, t, r) :
        c \in SendStatuses, t \in SendTexts, r \in SendRequestIds}

\* The dispatcher handles the response to the request of one mail.
DispatcherHandles ==
    /\ \E resp \in ClientSendResponses : reply' = send_response(resp)
    /\ UNCHANGED <<tokenVars, mailVars, httpVars, payloadVars, raceVars,
                   lastSend, watchVars, runVars>>

\* send_email hands a message to _send_email_graph_api.
ClientHandles ==
    /\ \E resp \in ClientSendResponses, id \in MessageIds :
         reply' = _send_email_graph_api(resp, id)
    /\ UNCHANGED <<tokenVars, mailVars, httpVars, payloadVars, raceVars,
                   lastSend, watchVars, runVars>>

NextClient == DispatcherHandles \/ ClientHandles

SpecClient == Init /\ [][NextClient]_vars

\* The text closes the message.
EndsWith(why, text) ==
    /\ Len(why) >= Len(text)
    /\ SubSeq(why, Len(why) - Len(text) + 1, Len(why)) = text

C31_RefreshTokenNeverCleared ==
    [][\A s \in Servers :
          server[s].ms_refresh_token # ""
              => server'[s].ms_refresh_token # ""]_vars

\* A call of a token procedure that issued a request and raised.
RefreshFinallyFailed ==
    /\ lastCall.op \in {"refresh_token_if_needed", "_get_oauth_token",
                        "ir_refresh_token_if_needed"}
    /\ lastCall.result = "raise"
    /\ lastCall.reqs # <<>>

\* The error's message contains the text.
Carries(error, text) == \E i \in 1..Len(error) : error[i] = text

\* C35: when a token refresh finally fails, the error raised carries the
\* text of the identity provider's response (where there is one) and the
\* access token, refresh token and expiry of the server are as before the
\* call.
C35_FailedRefreshCarriesTextAndKeepsStore ==
    RefreshFinallyFailed
        => /\ server[lastCall.srv] = lastCall.pre
           /\ lastCall.body # "" => Carries(lastCall.error, lastCall.body)

\* C35, the part about the store alone.
C35_FailedRefreshKeepsStore ==
    RefreshFinallyFailed => server[lastCall.srv] = lastCall.pre

\* C35, the error text for the procedure of ir_mail_server.py alone.
C35_IrFailedRefreshCarriesText ==
    (RefreshFinallyFailed /\ lastCall.op = "ir_refresh_token_if_needed"
        /\ lastCall.body # "")
        => Carries(lastCall.error, lastCall.body)

\* ------------------------------------------------- fix_freezing_mail.py
Frozen == "Mail operation timed out (system frozen)"

WatchFrame ==
    /\ pc = "idle"
    /\ UNCHANGED <<db_server, now, ticks, lastCall, pc, queue, groups, cur,
                   raise_exception, batch, done, entryAttempted, batchQueued,
                   graphRouted, reqThisPass, smtpPass, excMails, graphReq,
                   ops, tokenReqs, httpVars, payloadVars, raceVars,
                   clientVars, runVars>>

\* _send(mail_server=server 1) is entered on the mails ids, for the first
\* time or once the previous call and its watchdog have ended: the watchdog
\* thread is started and _send_graph_api_fixed begins its loop.
FixedSendStart(ids, ac) ==
    /\ WatchFrame
    /\ sending.pc \in {"idle", "returned"}
    /\ watchdog.pc \in {"none", "done"}
    /\ server[1].use_graph_api
    /\ freeze_detected' = FALSE
    /\ watchdog' = [pc |-> "sleep 30", rest |-> ids]
    /\ sending' = [pc |-> "loop", ids |-> Range(ids), rest |-> ids,
                   sent |-> {}]
    /\ auto_commit' = ac
    /\ UNCHANGED <<mail, db_mail, server>>

\* One iteration of the loop of _send_graph_api_fixed: a mail with the
\* attempted flag is skipped; otherwise the flag is set, the token is
\* refreshed, and the mail is written failed (token error, no recipient,
\* bad answer) or sent.
FixedSendMail(r1, r2, resp) ==
    /\ WatchFrame
    /\ sending.pc = "loop"
    /\ sending.rest # <<>>
    /\ LET m == Head(sending.rest)
           out == refresh_token_if_needed(server[1], now, r1, r2)
           marked == MarkAttempted(mail[m])
           after ==
               IF out.result = "raise"
               THEN RecordFailure(marked, "Token refresh failed")
               ELSE IF ~mail[m].has_recipients
               THEN RecordFailure(marked, "No recipient specified")
               ELSE IF resp \in {"200", "202"} THEN RecordSent(marked)
               ELSE RecordFailure(marked, SendFailureReason(resp))
       IN IF mail[m].graph_api_attempted
          THEN /\ sending' = [sending EXCEPT !.rest = Tail(@)]
               /\ UNCHANGED <<mail, db_mail, server>>
          ELSE /\ mail' = [mail EXCEPT ![m] = after]
               /\ server' = [server EXCEPT ![1] = out.store]
               /\ db_mail' = CommitAfterMail(auto_commit, mail', db_mail)
               /\ sending' =
                    [sending EXCEPT
                       !.rest = Tail(@),
                       !.sent = IF after.state = "sent" THEN @ \cup {m}
                                ELSE @]
    /\ UNCHANGED <<auto_commit, freeze_detected, watchdog>>

\* return result: freeze_detected['value'] = True
FixedSendReturn ==
    /\ WatchFrame
    /\ sending.pc = "loop"
    /\ sending.rest = <<>>
    /\ sending' = [sending EXCEPT !.pc = "returned"]
    /\ freeze_detected' = TRUE
    /\ UNCHANGED <<mail, db_mail, server, auto_commit, watchdog>>

\* The watchdog wakes up after 30 and after 45 seconds and looks at the
\* flag.
WatchdogWakes ==
    /\ WatchFrame
    /\ watchdog.pc \in {"sleep 30", "sleep 15"}
    /\ watchdog' =
         [watchdog EXCEPT
            !.pc = IF freeze_detected THEN "done"
                   ELSE IF @ = "sleep 30" THEN "sleep 15" ELSE "check"]
    /\ UNCHANGED <<mail, db_mail, server, auto_commit, freeze_detected,
                   sending>>

\* if mail.state == 'outgoing'
StillOutgoing(m) == mail[m].state = "outgoing"

\* for mail in mails: if mail.state == 'outgoing': ...
WatchdogChecks ==
    /\ WatchFrame
    /\ watchdog.pc = "check"
    /\ watchdog' =
         IF watchdog.rest = <<>> THEN [watchdog EXCEPT !.pc = "done"]
         ELSE IF StillOutgoing(Head(watchdog.rest))
         THEN [watchdog EXCEPT !.pc = "write"]
         ELSE [watchdog EXCEPT !.rest = Tail(@)]
    /\ UNCHANGED <<mail, db_mail, server, auto_commit, freeze_detected,
                   sending>>

\* mail.write({'state': 'exception', 'failure_reason': ...,
\*             'graph_api_attempted': True})
WatchdogWrites ==
    /\ WatchFrame
    /\ watchdog.pc = "write"
    /\ mail' = [mail EXCEPT ![Head(watchdog.rest)] =
                  RecordFailure(MarkAttempted(@), Frozen)]
    /\ watchdog' = [watchdog EXCEPT !.pc = "check", !.rest = Tail(@)]
    /\ UNCHANGED <<db_mail, server, auto_commit, freeze_detected, sending>>

NextWatchdog ==
    \/ \E b \in OperatorBatches, ac \in BOOLEAN :
         FixedSendStart(SetToSeq(b), ac)
    \/ \E r1 \in DispatchTokenResponses, r2 \in DispatchTokenResponses,
          resp \in SendResponses : FixedSendMail(r1, r2, resp)
    \/ FixedSendReturn
    \/ WatchdogWakes
    \/ WatchdogChecks
    \/ WatchdogWrites

SpecWatchdog == Init /\ [][NextWatchdog]_vars

\* C32 (as stated): no mail that the sending thread has set to sent is in
\* state exception with the watchdog's reason, and the watchdog writes
\* nothing once _send has returned.
C32_WatchdogNeverOverwritesSent ==
    [][/\ \A m \in sending'.sent :
            ~(/\ mail'[m].state = "exception"
              /\ mail'[m].failure_reason = Frozen)
       /\ (watchdog.pc = "write" /\ watchdog'.pc # "write")
              => sending.pc # "returned"]_vars

\* C36: when a pass of the dispatcher run with raise_exception false
\* returns, every mail it handed to the Graph branch is sent or failed;
\* none is still outgoing.
C36_GraphMailsLeaveQueueByEndOfPass ==
    (pc = "returned" /\ ~raise_exception)
        => \A m \in graphRouted : Settled(mail[m])

C36_Witness ==
    /\ pc = "returned"
    /\ ~raise_exception
    /\ Cardinality(graphRouted) = 2
    /\ \E m \in graphRouted : mail[m].state = "sent"
    /\ \E m \in graphRouted :
         /\ mail[m].state = "exception"
         /\ mail[m].failure_reason = SendFailureReason("timeout")

\* C36 for _send_graph_api_fixed: when it has returned, every mail it was
\* called on is sent or failed.
C36_FixedPassSettlesEveryMail ==
    sending.pc = "returned" => \A m \in sending.ids : Settled(mail[m])

\* ------------------------------------------------- process_email_queue
\* The queues a run finds: up to MaxQueued outgoing mails, the first k on
\* one server (0: none) and the others on another, or alternating.
QueueContents ==
    UNION {{[i \in 1..n |->
               [mail_server_id |-> IF i <= k THEN a ELSE 1 - a]] :
               k \in 0..n, a \in 0..1}
           \cup {[i \in 1..n |-> [mail_server_id |-> i % 2]]} :
           n \in 1..MaxQueued}

\* for i in range(0, len(server_mail_ids), batch_size): the batches of
\* every server group, in the order of mail_to_send.
Plan(gs) ==
    [g \in 1..Len(gs) |->
        [server_id |-> gs[g].server_id, batches |-> Slices(gs[g].mail_ids)]]

\* Slip: an exception ends the run.
SkipGroup_ends_run(plan) == <<>>

\* except Exception: the rest of the server group is left out and the loop
\* goes on with the next group.
SkipGroup(plan) == Tail(plan)

\* The plan once the first batch of the first group was sent.
NextBatch(plan) ==
    IF Len(plan[1].batches) = 1 THEN Tail(plan)
    ELSE <<[plan[1] EXCEPT !.batches = Tail(@)]>> \o Tail(plan)

RunFrame ==
    UNCHANGED <<tokenVars, mailVars, httpVars, payloadVars, raceVars,
                clientVars, watchVars>>

\* process_email_queue(ids=None) finds the outgoing mails ml and groups
\* them by server.
QueueRunStart(ml) ==
    /\ qrun.pc = "idle"
    /\ LET ids == [i \in 1..Len(ml) |-> i]
           gs == Plan(MailToSend(ids, ml))
       IN qrun' = [pc |-> "run", ml |-> ml, mail_to_send |-> gs,
                   plan |-> gs, sends |-> [i \in 1..Len(ml) |-> 0],
                   raised |-> {}]
    /\ RunFrame

\* self.sudo().browse(batch_ids).send(auto_commit=True) on the next batch;
\* send returns or raises.
QueueRunSend(raises) ==
    /\ qrun.pc = "run"
    /\ qrun.plan # <<>>
    /\ LET g == qrun.plan[1]
           b == Range(g.batches[1])
       IN qrun' = [qrun EXCEPT
                     !.sends = [i \in 1..Len(qrun.ml) |->
                                  IF i \in b THEN @[i] + 1 ELSE @[i]],
                     !.plan = IF raises THEN SkipGroup(@) ELSE NextBatch(@),
                     !.raised = IF raises THEN @ \cup {g.server_id} ELSE @]
    /\ RunFrame

\* return True
QueueRunReturn ==
    /\ qrun.pc = "run"
    /\ qrun.plan = <<>>
    /\ qrun' = [qrun EXCEPT !.pc = "done"]
    /\ RunFrame

NextQueueRun ==
    \/ \E ml \in QueueContents : QueueRunStart(ml)
    \/ \E raises \in BOOLEAN : QueueRunSend(raises)
    \/ QueueRunReturn

InitQueueRun ==
    /\ server = [s \in Servers |-> ServerRecord(TRUE, TRUE, "", "", {})]
    /\ db_server = server
    /\ fallback_to_smtp = [s \in Servers |-> TRUE]
    /\ IdsFollowCredentials
    /\ SenderConfigured
    /\ now = 0
    /\ ticks = 0
    /\ lastCall = NoCall
    /\ mail = [m \in Mails |-> NewMail(0, TRUE)]
    /\ attachment_ids = [m \in Mails |-> <<>>]
    /\ MailInitCommon

SpecQueueRun == InitQueueRun /\ [][NextQueueRun]_vars

\* The places of a mail in the groups and batches of the run.
Places(i) ==
    {p \in UNION {{<<g, b, n>> :
                     b \in 1..Len(qrun.mail_to_send[g].batches),
                     n \in 1..batch_size} :
                  g \in 1..Len(qrun.mail_to_send)} :
        /\ p[3] <= Len(qrun.mail_to_send[p[1]].batches[p[2]])
        /\ qrun.mail_to_send[p[1]].batches[p[2]][p[3]] = i}

\* Every queued mail is in one group, that of its server, and in one
\* batch, and no batch has more than batch_size mails.
PlacedOnce ==
    /\ \A i \in 1..Len(qrun.ml) :
         /\ Cardinality(Places(i)) = 1
         /\ \A p \in Places(i) :
              qrun.mail_to_send[p[1]].server_id = qrun.ml[i].mail_server_id
    /\ \A g \in 1..Len(qrun.mail_to_send) :
         \A b \in 1..Len(qrun.mail_to_send[g].batches) :
           Len(qrun.mail_to_send[g].batches[b]) \in 1..batch_size

\* The mails whose server group did not raise.
OtherGroups ==
    {i \in 1..Len(qrun.ml) : qrun.ml[i].mail_server_id \notin qrun.raised}

SmtpOutcomes == [1..2 -> BOOLEAN]

\* The answers to a second token request, drawn when the call issues one.
SecondAnswers(s, r1) ==
    IF Len(refresh_token_if_needed(server[s], now, r1, NoResp).reqs) > 1
    THEN QueueTokenResponses ELSE {NoResp}

SendEmailCall(handler, s, out, r1) ==
    [handler |-> handler, srv |-> s, fallback |-> fallback_to_smtp[s],
     posts |-> out.posts, smtp |-> out.smtp, result |-> out.result,
     token |-> IF r1.kind = "http" /\ r1.status_code = 200 THEN "200"
               ELSE "failed"]

\* A call of send_email ends: its writes are committed, or rolled back when
\* it raised.
SendEmailEnds(handler, s, out, r1) ==
    /\ IdleMailState
    /\ server' = [server EXCEPT
                    ![s] = IF out.result = "raise" THEN @ ELSE out.store]
    /\ db_server' = server'
    /\ lastSend' = SendEmailCall(handler, s, out, r1)
    /\ UNCHANGED <<now, ticks, lastCall, httpVars, payloadVars, raceVars,
                   reply, watchVars, runVars>>

SendEmail(s) ==
    \E r1 \in QueueTokenResponses, resp \in QueueSendResponses,
       smtp_ok \in SmtpOutcomes :
      \E r2 \in SecondAnswers(s, r1) :
        SendEmailEnds("mail_server.send_email", s,
                      send_email(server[s], fallback_to_smtp[s], now,
                                 r1, r2, resp, smtp_ok), r1)

IrSendEmail(s) ==
    \E r1 \in QueueTokenResponses, resp \in QueueSendResponses,
       smtp_ok \in SmtpOutcomes :
      \E r2 \in SecondAnswers(s, r1) :
        SendEmailEnds("ir_mail_server.send_email", s,
                      ir_send_email(server[s], fallback_to_smtp[s], now,
                                    r1, r2, resp, smtp_ok), r1)

FixSendEmail(s) ==
    \E r1 \in QueueTokenResponses, resp \in QueueSendResponses,
       smtp_ok \in SmtpOutcomes :
      \E r2 \in SecondAnswers(s, r1) :
        SendEmailEnds("fix_ir_mail_server.send_email", s,
                      fix_send_email(server[s], fallback_to_smtp[s], now,
                                     r1, r2, resp, smtp_ok), r1)

NextSendEmail ==
    \/ \E s \in Servers : SendEmail(s)
    \/ \E s \in Servers : IrSendEmail(s)
    \/ \E s \in Servers : FixSendEmail(s)

\* Servers as in InitDispatch; the mails play no part.
InitSendEmail ==
    /\ \E k \in 0..NServers, c \in BOOLEAN, st \in InitialStores :
         server = [s \in Servers |->
                     ServerRecord(s > k, c, st[1], st[2], st[3])]
    /\ db_server = server
    /\ \E f \in BOOLEAN : fallback_to_smtp = [s \in Servers |-> f]
    /\ IdsFollowCredentials
    /\ SenderConfigured
    /\ now = 0
    /\ ticks = 0
    /\ lastCall = NoCall
    /\ mail = [m \in Mails |-> NewMail(0, TRUE)]
    /\ attachment_ids = [m \in Mails |-> <<>>]
    /\ MailInitCommon

SpecSendEmail == InitSendEmail /\ [][NextSendEmail]_vars

\* C33 (as stated): a call of send_email of mail_server.py on a Graph
\* server with fallback_to_smtp set calls the standard method at most once.
C33_SmtpAtMostOnce ==
    (/\ lastSend.handler = "mail_server.send_email"
     /\ server[lastSend.srv].use_graph_api
     /\ lastSend.fallback)
    => lastSend.smtp <= 1

\* C34 (as stated): on a Graph server without fallback_to_smtp a call of
\* send_email that does not send through Graph API raises and does not call
\* the standard method.
C34_NoSmtpWithoutFallback ==
    (/\ lastSend.handler # "none"
     /\ server[lastSend.srv].use_graph_api
     /\ ~lastSend.fallback
     /\ lastSend.result # "graph")
    => (lastSend.result = "raise" /\ lastSend.smtp = 0)

====
